---- MODULE Spec2Model ----
(***************************************************************************)
(* Replicate aggregation and outlier cleaning of the vector-database       *)
(* benchmarking scripts.                                                   *)
(*                                                                         *)
(* Numbers.  Every measurement and every float the scripts derive from it  *)
(* (mean, std, cv_percent, ...) is a fixed-point integer counting          *)
(* hundredths: 1900 stands for 19.00.  Quartiles and IQR bounds carry a    *)
(* further factor 4 (names ending in 4), which makes numpy's linear        *)
(* interpolation exact.  Comparisons of means are cross-multiplied, so     *)
(* they are exact too; a cv_percent is floor(10^4 * sqrt(Q) / sum) with    *)
(* Q = n*sum(x^2) - sum(x)^2, i.e. std/mean*100 truncated to hundredths.   *)
(*                                                                         *)
(* JSON objects are records, JSON lists are sequences, and a key that is   *)
(* absent from a Python dict is absent from the record's DOMAIN.  The      *)
(* cleaned_at timestamps are left out.  A list of metric names or of       *)
(* indices whose order is the iteration order of a dict or of enumerate    *)
(* is kept as the set of its elements.                                     *)
(***************************************************************************)
EXTENDS Integers, Sequences, FiniteSets, TLC

VARIABLES
    all_results,   \* the list of run records handed to aggregate_results
    aggregated,    \* the value aggregate_results returned last
    data,          \* the contents of aggregated_results.json on disk
    report,        \* the report of the last clean_aggregated_results call
    script,        \* the aggregator that is run: "n3" or "n7"
    calls,         \* how often aggregate_results was called on all_results
    sample,        \* the list a detector is called with
    threshold,     \* the threshold it is called with
    result,        \* what the call returned
    runner,        \* the experiment script: "n3" or "n2_additional"
    n_runs,        \* --runs
    script_exists, \* whether DATABASE_SCRIPTS[database] is a file
    selected_corpuses,   \* the corpora main walks, by name
    agg_files,     \* corpus -> contents of its aggregated_results.json
    logs,          \* <<corpus, run>> -> contents of its benchmark.log
    attempts,      \* <<corpus, run>> -> what run_single_benchmark met and returned
    experiment_results,  \* experiment_results['benchmarks']
    corpus_index,  \* the corpus main is at (1-based), past the end when done
    run_num,       \* the run run_n_benchmarks is at
    progress_file, \* contents of experiment_progress.json
    summary_file,  \* contents of experiment_summary.json
    analysis,      \* the analysis script: "results" or "with_stats"
    results_files, \* the results.json files load_all_results finds
    fit_calls,     \* the calls of fit_scaling_curve, in order
    analysis_status,   \* how main of the analysis ended
    existing_n3_runs,  \* the results.json of the run_* directories of the N=3 corpus
    n10_results_files, \* run number -> results.json under the N=10 corpus directory
    start_run,         \* --start-run
    target_runs,       \* --target-runs
    next_run,          \* the run process_corpus is at
    upgrade_status,    \* "copying", "running" or "returned"
    num_queries,       \* len(query_texts)
    ground_truth,      \* whether ground_truth_queries is given
    bench_calls,       \* the calls made on the benchmark object, in order
    bench_pc,          \* the statement run_full_benchmark is at
    queries_done,      \* iterations completed in the loop it is in
    pending,           \* the exception that is propagating, "none" if none
    bench_status       \* "running", "returned" or "raised"

pipeline == <<all_results, aggregated, data, report, script, calls>>

detector == <<sample, threshold, result>>

experiment == <<runner, n_runs, script_exists, selected_corpuses, agg_files,
                logs, attempts, experiment_results, corpus_index, run_num,
                progress_file, summary_file>>

fitting == <<analysis, results_files, fit_calls, analysis_status>>

upgrade == <<existing_n3_runs, n10_results_files, start_run, target_runs,
             next_run, upgrade_status>>

benchmark == <<num_queries, ground_truth, bench_calls, bench_pc,
               queries_done, pending, bench_status>>

harness == <<experiment, fitting, upgrade, benchmark>>

vars == <<pipeline, detector, harness>>

\* Bounds of the model.
MaxRuns == 5       \* runs per corpus in the cleaning pipeline
MaxAggRuns == 2    \* runs per corpus when the aggregator is exercised
MaxCalls == 2      \* calls of aggregate_results on one list
MaxLen == 6        \* length of a list a detector is called with
MaxCorpora == 2    \* corpora an experiment walks
MaxExpRuns == 2    \* --runs of an experiment
MaxSample == 3     \* length of a list a statistics function is called with
MaxFiles == 3      \* results.json files an analysis loads
MaxExisting == 4   \* run directories of the N=3 corpus
MaxTarget == 6     \* --target-runs
MaxQueries == 3    \* query texts of a benchmark

\* Python's None where a number is expected (measurements are never negative).
None == 0 - 1

\* A lookup that yields 0 for a missing key
GetOrZero(rec, key) == IF key \in DOMAIN rec THEN rec[key] ELSE 0

\* dict.get(key, None)
Get(rec, key) == IF key \in DOMAIN rec THEN rec[key] ELSE None

---------------------------------------------------------------------------
\* numpy reductions

RECURSIVE SeqSum(_)
SeqSum(s) == IF Len(s) = 0 THEN 0 ELSE Head(s) + SeqSum(Tail(s))

SeqMin(s) == CHOOSE x \in {s[i] : i \in 1..Len(s)} : \A i \in 1..Len(s) : x <= s[i]

SeqMax(s) == CHOOSE x \in {s[i] : i \in 1..Len(s)} : \A i \in 1..Len(s) : x >= s[i]

\* n*sum(x^2) - sum(x)^2, computed as the sum of the squared pairwise
\* differences (the same number, without the large intermediate terms).
SqDev(s) ==
    SeqSum([i \in 1..Len(s) |->
        SeqSum([j \in 1..Len(s) |->
            IF j > i THEN (s[i] - s[j]) * (s[i] - s[j]) ELSE 0])])

RECURSIVE IsqrtIter(_, _, _)
IsqrtIter(x, lo, hi) ==
    IF lo >= hi THEN lo
    ELSE LET mid == (lo + hi + 1) \div 2
         IN  IF mid * mid <= x THEN IsqrtIter(x, mid, hi)
             ELSE IsqrtIter(x, lo, mid - 1)

\* floor(sqrt(x)) for 0 <= x < 2^31
Isqrt(x) == IsqrtIter(x, 0, 46340)

\* np.mean(values)
Mean(values) == SeqSum(values) \div Len(values)

\* np.std(values, ddof=0) = sqrt(Q) / n
Std(values) == Isqrt(SqDev(values)) \div Len(values)

\* np.std(values) / np.mean(values) * 100, for a sum that is not 0
CvOf(values) == (10000 * Isqrt(SqDev(values))) \div SeqSum(values)

\* 4 * np.percentile(values, 25 * quarter): linear interpolation between the
\* two order statistics around position (n-1) * quarter / 4.
Percentile4(values, quarter) ==
    LET s    == SortSeq(values, LAMBDA a, b : a < b)
        num  == (Len(s) - 1) * quarter
        lo   == num \div 4
        frac == num % 4
        hi   == IF lo + 1 <= Len(s) - 1 THEN lo + 1 ELSE Len(s) - 1
    IN  4 * s[lo + 1] + frac * (s[hi + 1] - s[lo + 1])

---------------------------------------------------------------------------
\* calculate_statistics (the same function in the three cleaning scripts)

\* calculate_statistics with n counted one short
CalculateStatisticsShortCount(values) ==
    [mean       |-> IF Len(values) = 0 THEN 0 ELSE Mean(values),
     std        |-> IF Len(values) = 0 THEN 0 ELSE Std(values),
     min        |-> IF Len(values) = 0 THEN 0 ELSE SeqMin(values),
     max        |-> IF Len(values) = 0 THEN 0 ELSE SeqMax(values),
     cv_percent |-> IF SeqSum(values) # 0 THEN CvOf(values) ELSE 0,
     n          |-> IF Len(values) = 0 THEN 0 ELSE Len(values) - 1,
     values     |-> values]

CalculateStatistics(values) ==
    IF Len(values) = 0
    THEN [mean |-> 0, std |-> 0, min |-> 0, max |-> 0, cv_percent |-> 0,
          n |-> 0, values |-> <<>>]
    ELSE [mean       |-> Mean(values),
          std        |-> Std(values),
          min        |-> SeqMin(values),
          max        |-> SeqMax(values),
          cv_percent |-> IF SeqSum(values) # 0 THEN CvOf(values) ELSE 0,
          n          |-> Len(values),
          values     |-> values]

---------------------------------------------------------------------------
\* IQR detector

\* calculate_iqr_bounds with multiplier k: [inf, lower4, upper4]; inf stands
\* for (-inf, +inf), and lower4, upper4 are the bounds times 4.
IqrBounds(values, k) ==
    IF Len(values) < 4
    THEN [inf |-> TRUE, lower4 |-> 0, upper4 |-> 0]
    ELSE LET q1  == Percentile4(values, 1)
             q3  == Percentile4(values, 3)
             iqr == q3 - q1
         IN  [inf |-> FALSE, lower4 |-> q1 - k * iqr, upper4 |-> q3 + k * iqr]

\* [i for i, v in enumerate(values) if v < lower_bound or v > upper_bound],
\* 0-based
OutsideBounds(values, b) ==
    {i \in 0..(Len(values) - 1) :
        ~b.inf /\ (4 * values[i + 1] < b.lower4 \/ 4 * values[i + 1] > b.upper4)}

\* clean_outliers_n10.calculate_iqr_bounds: 3 * IQR
CalculateIqrBoundsN10(values) == IqrBounds(values, 3)

\* Bounds at 4 * IQR
CalculateIqrBoundsWider(values) == IqrBounds(values, 4)

\* clean_outliers_aggressive.calculate_iqr_bounds: 2 * IQR
CalculateIqrBoundsAggressive(values) == IqrBounds(values, 2)

\* clean_outliers_n10.identify_outliers
IdentifyOutliers(values) ==
    IF Len(values) < 4 THEN {}
    ELSE OutsideBounds(values, CalculateIqrBoundsN10(values))

\* [v for i, v in enumerate(values) if i not in outlier_indices]
RECURSIVE RemoveFrom(_, _, _)
RemoveFrom(values, outlier_indices, i) ==
    IF i >= Len(values) THEN <<>>
    ELSE (IF i \in outlier_indices THEN <<>> ELSE <<values[i + 1]>>)
         \o RemoveFrom(values, outlier_indices, i + 1)

\* The filter with the indices read as positions counted from 1
AfterValuesOneBased(values, outlier_indices) ==
    RemoveFrom(values, {i + 1 : i \in outlier_indices}, 0)

AfterValues(values, outlier_indices) == RemoveFrom(values, outlier_indices, 0)

---------------------------------------------------------------------------
\* Cold-start detector

\* The iteration that is content with 2 remaining values
ColdStartStepTwoRemain(values, best, n_outliers) ==
    IF n_outliers >= Len(values) - 1 THEN best
    ELSE LET first_n   == SubSeq(values, 1, n_outliers)
             remaining == SubSeq(values, n_outliers + 1, Len(values))
         IN  IF SeqSum(first_n) * Len(remaining)
                    >= 3 * SeqSum(remaining) * Len(first_n)
                \* a mean of 0 makes cv_after nan, and nan > x is false
                /\ SeqSum(remaining) # 0
             THEN LET cv_improvement == CvOf(values) - CvOf(remaining)
                  IN  IF cv_improvement > best.improvement
                      THEN [outliers    |-> 0..(n_outliers - 1),
                            improvement |-> cv_improvement]
                      ELSE best
             ELSE best

\* The iteration without the test of the two means
ColdStartStepAnyPrefix(values, best, n_outliers) ==
    IF n_outliers >= Len(values) - 2 THEN best
    ELSE LET remaining == SubSeq(values, n_outliers + 1, Len(values))
         IN  IF SeqSum(remaining) # 0
             THEN LET cv_improvement == CvOf(values) - CvOf(remaining)
                  IN  IF cv_improvement > best.improvement
                      THEN [outliers    |-> 0..(n_outliers - 1),
                            improvement |-> cv_improvement]
                      ELSE best
             ELSE best

\* One iteration of the loop over n_outliers in [1, 2, 3]; best is
\* [outliers, improvement] = (best_outliers, best_cv_improvement).
ColdStartStep(values, best, n_outliers) ==
    IF n_outliers >= Len(values) - 2 THEN best
    ELSE LET first_n   == SubSeq(values, 1, n_outliers)
             remaining == SubSeq(values, n_outliers + 1, Len(values))
         IN  IF SeqSum(first_n) * Len(remaining)
                    >= 3 * SeqSum(remaining) * Len(first_n)
                \* a mean of 0 makes cv_after nan, and nan > x is false
                /\ SeqSum(remaining) # 0
             THEN LET cv_improvement == CvOf(values) - CvOf(remaining)
                  IN  IF cv_improvement > best.improvement
                      THEN [outliers    |-> 0..(n_outliers - 1),
                            improvement |-> cv_improvement]
                      ELSE best
             ELSE best

\* The detector returning the shortest prefix that clears the bar
DetectColdStartPatternFirstHit(values) ==
    IF Len(values) < 5 THEN {}
    ELSE LET b0 == [outliers |-> {}, improvement |-> 0]
             b1 == ColdStartStep(values, b0, 1)
             b2 == ColdStartStep(values, b0, 2)
             b3 == ColdStartStep(values, b0, 3)
         IN  IF b1.improvement > 15 * 100 THEN b1.outliers
             ELSE IF b2.improvement > 15 * 100 THEN b2.outliers
             ELSE IF b3.improvement > 15 * 100 THEN b3.outliers
             ELSE {}

\* The detector without its minimum sample size
DetectColdStartPatternNoMinimum(values) ==
    LET b0 == [outliers |-> {}, improvement |-> 0]
        b1 == ColdStartStep(values, b0, 1)
        b2 == ColdStartStep(values, b1, 2)
        b3 == ColdStartStep(values, b2, 3)
    IN  IF b3.improvement > 15 * 100 THEN b3.outliers ELSE {}

DetectColdStartPattern(values) ==
    IF Len(values) < 5 THEN {}
    ELSE LET b0 == [outliers |-> {}, improvement |-> 0]
             b1 == ColdStartStep(values, b0, 1)
             b2 == ColdStartStep(values, b1, 2)
             b3 == ColdStartStep(values, b2, 3)
         IN  IF b3.improvement > 15 * 100 THEN b3.outliers ELSE {}

---------------------------------------------------------------------------
\* Replicate aggregator (run_scaling_experiment_n3, run_scaling_n2_additional
\* and run_scaling_n7_additional hold the same extract_metrics and the same
\* aggregate_results, except that the n7 script also stores cv_percent).
\*
\* A run record is a record with the optional keys ingestion and
\* query_results.  query_results is [kind |-> "list", items |-> <<item, ..>>]
\* or [kind |-> "dict", items |-> <<[key |-> k, value |-> item], ..>>] (a dict
\* in insertion order); an item is a record with optional keys.

\* item.get('top_k') == 3
IsTopK3(item) == "top_k" \in DOMAIN item /\ item.top_k = 3

\* The sub-record q the query metrics are read from, as a sequence of length
\* one, or <<>> when q is None or {}.
SelectQuery(query_data) ==
    LET items == query_data.items
    IN  IF query_data.kind = "list"
        THEN LET hits == {i \in 1..Len(items) : IsTopK3(items[i])}
             IN  IF hits # {}
                 THEN <<items[CHOOSE i \in hits : \A j \in hits : i <= j]>>
                 ELSE IF Len(items) > 0 THEN <<items[1]>> ELSE <<>>
        ELSE LET at(k) == {i \in 1..Len(items) : items[i].key = k}
             IN  IF at("3") # {}
                 THEN <<items[CHOOSE i \in at("3") : TRUE].value>>
                 ELSE IF at("top_k_3") # {}
                 THEN <<items[CHOOSE i \in at("top_k_3") : TRUE].value>>
                 ELSE IF Len(items) > 0 THEN <<items[1].value>> ELSE <<>>

\* extract_metrics: a dict from metric name to a number or None
ExtractMetrics(results) ==
    LET ing == IF "ingestion" \in DOMAIN results
               THEN [ingestion_time |-> Get(results.ingestion, "total_time_sec"),
                     num_chunks     |-> Get(results.ingestion, "num_chunks")]
               ELSE <<>>
        q   == IF "query_results" \in DOMAIN results
               THEN SelectQuery(results.query_results)
               ELSE <<>>
        qm  == IF Len(q) > 0
               THEN [p50_latency_ms |->
                         IF "p50_latency_ms" \in DOMAIN q[1]
                         THEN q[1].p50_latency_ms
                         ELSE Get(q[1], "avg_latency_ms"),
                     p95_latency_ms     |-> Get(q[1], "p95_latency_ms"),
                     queries_per_second |-> Get(q[1], "queries_per_second")]
               ELSE <<>>
    IN  ing @@ qm

\* statistics[key] as aggregate_results builds it; variant is "n3" or "n7"
AggregateStatistics(values, variant) ==
    LET base == [mean   |-> Mean(values),
                 std    |-> Std(values),
                 min    |-> SeqMin(values),
                 max    |-> SeqMax(values),
                 values |-> values,
                 n      |-> Len(values)]
    IN  IF variant = "n7"
        THEN base @@ [cv_percent |->
                         IF SeqSum(values) > 0 THEN CvOf(values) ELSE 0]
        ELSE base

\* The three assignments item[...] = statistics[...]['mean'], each made
\* only if statistics holds the key
UpdateItem(item, statistics) ==
    [k \in {"p50_latency_ms", "p95_latency_ms", "queries_per_second"}
              \cap DOMAIN statistics |-> statistics[k].mean] @@ item

\* rep_result after "Update with mean values"
RepResult(first, statistics) ==
    LET r1 == IF "ingestion" \in DOMAIN first
                 /\ "total_time_sec" \in DOMAIN statistics
              THEN [first EXCEPT !.ingestion =
                       [total_time_sec |-> statistics["total_time_sec"].mean]
                       @@ first.ingestion]
              ELSE first
    IN  IF "query_results" \in DOMAIN r1
        THEN LET qd == r1.query_results
             IN  [r1 EXCEPT !.query_results.items =
                    [i \in 1..Len(qd.items) |->
                        IF qd.kind = "list"
                        THEN IF IsTopK3(qd.items[i])
                             THEN UpdateItem(qd.items[i], statistics)
                             ELSE qd.items[i]
                        ELSE IF qd.items[i].key \in {"3", "top_k_3"}
                             THEN [key   |-> qd.items[i].key,
                                   value |-> UpdateItem(qd.items[i].value,
                                                        statistics)]
                             ELSE qd.items[i]]]
        ELSE r1

\* aggregate_results(runs): [result, runs], the returned dict and the list
\* runs as the call leaves it.  rep_result = all_results[0].copy() is a
\* shallow copy, so rep_result['ingestion'] and rep_result['query_results']
\* are the objects of all_results[0], and the assignments into them are
\* assignments into all_results[0]; 'individual_runs' is the list itself.
AggregateResults(runs, variant) ==
    IF Len(runs) = 0 THEN [result |-> [none |-> TRUE], runs |-> runs]
    ELSE
    LET metrics_list == [i \in 1..Len(runs) |-> ExtractMetrics(runs[i])]
        all_keys     == UNION {DOMAIN metrics_list[i] : i \in 1..Len(runs)}
        column(key)  == [i \in 1..Len(runs) |-> Get(metrics_list[i], key)]
        valuesOf(key) == SelectSeq(column(key), LAMBDA x : x # None)
        statistics   == [key \in {k \in all_keys : Len(valuesOf(k)) > 0} |->
                            AggregateStatistics(valuesOf(key), variant)]
        rep_result   == RepResult(runs[1], statistics)
        after        == [runs EXCEPT ![1] = rep_result]
    IN  [result |-> [n_runs          |-> Len(runs),
                     individual_runs |-> after,
                     statistics      |-> statistics,
                     mean_result     |-> rep_result],
         runs   |-> after]

---------------------------------------------------------------------------
\* Cleaning passes.  Each clean_aggregated_results(agg_file_path) loads the
\* file into d, walks the metrics of d['statistics'], and writes the file
\* back only when it cleaned a metric.  A call is modelled by its outcome
\* [data, report]: the file contents after the call and the returned report
\* (status "KeyError" when the call raised instead of returning).

RECURSIVE SetSum(_, _)
SetSum(f, S) ==
    IF S = {} THEN 0
    ELSE LET x == CHOOSE y \in S : TRUE IN f[x] + SetSum(f, S \ {x})

SetMin(S) == CHOOSE x \in S : \A y \in S : x <= y

\* Lines 120-128 of clean_outliers_n10 (the same in the two other scripts):
\* what removing outlier_indices from metric_data does.
Removal(metric_data, outlier_indices) ==
    LET values       == metric_data.values
        after_values == AfterValues(values, outlier_indices)
        after_stats  == CalculateStatistics(after_values)
    IN  [outlier_indices |-> outlier_indices,
         outlier_values  |-> {values[i + 1] : i \in outlier_indices},
         after_values    |-> after_values,
         after_stats     |-> after_stats,
         cv_improvement  |-> metric_data.cv_percent - after_stats.cv_percent]

\* The entry report['metrics_cleaned'][metric]
CleanedEntry(metric_data, r) ==
    [outlier_indices |-> r.outlier_indices,
     outlier_values  |-> r.outlier_values,
     before |-> [mean       |-> metric_data.mean,
                 std        |-> metric_data.std,
                 cv_percent |-> metric_data.cv_percent,
                 n          |-> metric_data.n],
     after  |-> [mean       |-> r.after_stats.mean,
                 std        |-> r.after_stats.std,
                 cv_percent |-> r.after_stats.cv_percent,
                 n          |-> r.after_stats.n],
     cv_improvement |-> r.cv_improvement]

\* The report a call returns; found maps each accepted metric to its Removal.
MakeReport(d, found, pass, no_status) ==
    [pass             |-> pass,
     status           |-> IF DOMAIN found # {} THEN "cleaned" ELSE no_status,
     metrics_cleaned  |-> [m \in DOMAIN found |->
                              CleanedEntry(d.statistics[m], found[m])],
     outliers_removed |-> SetSum([m \in DOMAIN found |->
                              Cardinality(found[m].outlier_indices)],
                              DOMAIN found),
     original_n       |-> IF "n_runs" \in DOMAIN d THEN d.n_runs ELSE 0,
     cleaned_n        |-> IF DOMAIN found # {}
                          THEN SetMin({found[m].after_stats.n : m \in DOMAIN found})
                          ELSE IF "n_runs" \in DOMAIN d THEN d.n_runs ELSE 0]

\* The report of a call that returned before looking at any metric, or that
\* raised.
EarlyReport(d, pass, status) ==
    [pass             |-> pass,
     status           |-> status,
     metrics_cleaned  |-> [m \in {} |-> 0],
     outliers_removed |-> 0,
     original_n       |-> IF "n_runs" \in DOMAIN d THEN d.n_runs ELSE 0,
     cleaned_n        |-> IF "n_runs" \in DOMAIN d THEN d.n_runs ELSE 0]

\* A rewrite that also lowers n_runs to the smallest retained count
RewrittenWithCount(d, found) ==
    [d EXCEPT !.statistics =
                  [m \in DOMAIN d.statistics |->
                      IF m \in DOMAIN found THEN found[m].after_stats
                      ELSE d.statistics[m]],
              !.n_runs =
                  IF DOMAIN found # {}
                  THEN SetMin({found[m].after_stats.n : m \in DOMAIN found})
                  ELSE @]

\* data['statistics'][metric] = after_stats for every accepted metric
Rewritten(d, found) ==
    [d EXCEPT !.statistics =
        [m \in DOMAIN d.statistics |->
            IF m \in DOMAIN found THEN found[m].after_stats
            ELSE d.statistics[m]]]

HasStatistics(d) == "statistics" \in DOMAIN d /\ DOMAIN d.statistics # {}

\* ---- conservative pass: clean_outliers_n10.py ----

\* The conservative gate with >= in place of >
GateN10NotStrict(cv_improvement, after_values) ==
    cv_improvement >= 10 * 100 /\ Len(after_values) >= 3

\* if cv_improvement > 10 and len(after_values) >= 3
GateN10(cv_improvement, after_values) ==
    cv_improvement > 10 * 100 /\ Len(after_values) >= 3

CleanN10(d) ==
    IF ~HasStatistics(d)
    THEN [data |-> d, report |-> EarlyReport(d, "n10", "no_statistics")]
    ELSE
    LET statistics == d.statistics
        checked == {m \in DOMAIN statistics :
                       /\ "values" \in DOMAIN statistics[m]
                       /\ Len(statistics[m].values) > 0
                       /\ Len(statistics[m].values) >= 4}
        flagged == {m \in checked : IdentifyOutliers(statistics[m].values) # {}}
    IN  IF \E m \in flagged : "cv_percent" \notin DOMAIN statistics[m]
        THEN \* before_stats['cv_percent'] raises KeyError; nothing is saved
             [data |-> d, report |-> EarlyReport(d, "n10", "KeyError")]
        ELSE
        LET removal  == [m \in flagged |->
                            Removal(statistics[m],
                                    IdentifyOutliers(statistics[m].values))]
            accepted == {m \in flagged :
                            GateN10(removal[m].cv_improvement,
                                    removal[m].after_values)}
            found    == [m \in accepted |-> removal[m]]
            rep      == MakeReport(d, found, "n10", "no_outliers")
        IN  IF accepted # {}
            THEN [data |->
                     [outlier_cleaning |->
                         [method          |-> "iqr_3x",
                          metrics_cleaned |-> accepted,
                          total_outliers_detected |-> rep.outliers_removed]]
                     @@ Rewritten(d, found),
                  report |-> rep]
            ELSE [data |-> d, report |-> rep]

\* ---- aggressive pass: clean_outliers_aggressive.py ----

\* if (cv_improvement > 5 or after_stats['cv_percent'] < 30)
\*    and len(after_values) >= 3
GateAggressive(cv_improvement, after_stats, after_values) ==
    /\ cv_improvement > 5 * 100 \/ after_stats.cv_percent < 30 * 100
    /\ Len(after_values) >= 3

\* The filter with >= in place of >
HighCvNotStrict(s, cv_threshold) ==
    /\ (IF "cv_percent" \in DOMAIN s THEN s.cv_percent ELSE 0) >= cv_threshold
    /\ "values" \in DOMAIN s

\* s.get('cv_percent', 0) > cv_threshold and 'values' in s
HighCv(s, cv_threshold) ==
    /\ (IF "cv_percent" \in DOMAIN s THEN s.cv_percent ELSE 0) > cv_threshold
    /\ "values" \in DOMAIN s

Nested(d, key, rec) ==
    [d EXCEPT !.outlier_cleaning = [k \in {key} |-> rec] @@ @]

CleanAggressive(d, cv_threshold) ==
    IF ~HasStatistics(d)
    THEN [data |-> d, report |-> EarlyReport(d, "aggressive", "no_statistics")]
    ELSE
    LET statistics == d.statistics
        high_cv_metrics == {m \in DOMAIN statistics :
                               HighCv(statistics[m], cv_threshold)}
        outliers(m) == OutsideBounds(statistics[m].values,
                           CalculateIqrBoundsAggressive(statistics[m].values))
        flagged  == {m \in high_cv_metrics :
                        Len(statistics[m].values) >= 4 /\ outliers(m) # {}}
        removal  == [m \in flagged |-> Removal(statistics[m], outliers(m))]
        accepted == {m \in flagged :
                        GateAggressive(removal[m].cv_improvement,
                                       removal[m].after_stats,
                                       removal[m].after_values)}
        found    == [m \in accepted |-> removal[m]]
        rep      == MakeReport(d, found, "aggressive", "no_outliers")
    IN  IF accepted # {}
        THEN [data |->
                 IF "outlier_cleaning" \in DOMAIN d
                 THEN Nested(Rewritten(d, found), "aggressive_pass",
                          [method          |-> "iqr_2x",
                           cv_threshold    |-> cv_threshold,
                           metrics_cleaned |-> accepted,
                           total_outliers  |-> rep.outliers_removed])
                 ELSE [outlier_cleaning |->
                          [method          |-> "iqr_2x_aggressive",
                           cv_threshold    |-> cv_threshold,
                           metrics_cleaned |-> accepted,
                           total_outliers_detected |-> rep.outliers_removed]]
                      @@ Rewritten(d, found),
              report |-> rep]
        ELSE [data |-> d, report |-> rep]

\* ---- cold-start pass: clean_cold_start_outliers.py ----

\* if len(after_values) >= 3
GateColdStart(after_values) == Len(after_values) >= 3

CleanColdStart(d) ==
    IF ~HasStatistics(d)
    THEN [data |-> d, report |-> EarlyReport(d, "cold_start", "no_statistics")]
    ELSE
    LET statistics == d.statistics
        target_metrics == {m \in DOMAIN statistics :
                              /\ HighCv(statistics[m], 40 * 100)
                              /\ Len(statistics[m].values) >= 5}
        outliers(m) == DetectColdStartPattern(statistics[m].values)
        flagged  == {m \in target_metrics : outliers(m) # {}}
        removal  == [m \in flagged |-> Removal(statistics[m], outliers(m))]
        accepted == {m \in flagged : GateColdStart(removal[m].after_values)}
        found    == [m \in accepted |-> removal[m]]
        rep      == MakeReport(d, found, "cold_start", "no_cold_start")
    IN  IF accepted # {}
        THEN [data |->
                 IF "outlier_cleaning" \in DOMAIN d
                 THEN Nested(Rewritten(d, found), "cold_start_pass",
                          [method          |-> "cold_start_detection",
                           metrics_cleaned |-> accepted,
                           total_outliers  |-> rep.outliers_removed])
                 ELSE [outlier_cleaning |->
                          [method          |-> "cold_start_detection",
                           metrics_cleaned |-> accepted,
                           total_outliers_detected |-> rep.outliers_removed]]
                      @@ Rewritten(d, found),
              report |-> rep]
        ELSE [data |-> d, report |-> rep]

---------------------------------------------------------------------------
\* Run records (the results.json a benchmark runner writes)

Item(top_k, p50, p95, qps) ==
    [top_k              |-> top_k,
     p50_latency_ms     |-> p50,
     p95_latency_ms     |-> p95,
     queries_per_second |-> qps]

Ingestion(total_time_sec) ==
    [total_time_sec |-> total_time_sec, num_chunks |-> 100 * 100]

\* A complete list-shaped record with ingestion time t and p50 latency p
Run(t, p) ==
    [ingestion     |-> Ingestion(t),
     query_results |-> [kind  |-> "list",
                        items |-> <<Item(1, 1500, 2500, 6000),
                                    Item(3, p, 9500, 5000)>>]]

\* The runs of the cleaning pipeline: (ingestion time, p50) is (19, 22),
\* (24, 90) or (90, 1).
CleanPool == {Run(1900, 2200), Run(2400, 9000), Run(9000, 100)}

\* The shapes extract_metrics tells apart
ShapePool ==
    {Run(1000, 200),
     Run(2000, 600),
     \* a list with no top_k == 3 item
     [ingestion     |-> Ingestion(1000),
      query_results |-> [kind  |-> "list",
                         items |-> <<Item(1, 500, 700, 4000),
                                     Item(5, 900, 1100, 2000)>>]],
     \* a mapping with the key '3'
     [ingestion     |-> Ingestion(3000),
      query_results |-> [kind  |-> "dict",
                         items |-> <<[key |-> "1", value |-> Item(1, 100, 300, 8000)],
                                     [key |-> "3", value |-> Item(3, 400, 600, 4000)]>>]],
     \* a mapping with the key 'top_k_3'
     [ingestion     |-> Ingestion(1000),
      query_results |-> [kind  |-> "dict",
                         items |-> <<[key   |-> "top_k_3",
                                      value |-> [p50_latency_ms     |-> 800,
                                                 p95_latency_ms     |-> 1000,
                                                 queries_per_second |-> 2000]]>>]],
     \* a mapping with neither key
     [ingestion     |-> Ingestion(2000),
      query_results |-> [kind  |-> "dict",
                         items |-> <<[key |-> "5", value |-> Item(5, 700, 900, 3000)]>>]],
     \* no query_results
     [ingestion |-> Ingestion(4000)],
     \* no ingestion
     [query_results |-> [kind  |-> "list",
                         items |-> <<Item(3, 300, 500, 7000)>>]],
     \* avg_latency_ms in place of p50_latency_ms, no p95_latency_ms
     [ingestion     |-> [num_chunks |-> 100 * 100],
      query_results |-> [kind  |-> "list",
                         items |-> <<[top_k              |-> 3,
                                      avg_latency_ms     |-> 500,
                                      queries_per_second |-> 1000]>>]]}

Lists(pool, lo, hi) == UNION {[1..n -> pool] : n \in lo..hi}

\* Five runs whose ingestion times 19, 19, 19, 19, 42.75 have a CV of
\* exactly 40 percent (mean 23.75, std 9.5)
ExactFortyRuns ==
    {<<Run(1900, 2200), Run(1900, 2200), Run(1900, 2200), Run(1900, 2200),
       Run(4275, 2200)>>}

---------------------------------------------------------------------------
\* Spec: the cleaning pipeline over one aggregated_results.json

NoValue == [none |-> TRUE, impl |-> "none"]

NoReport == EarlyReport(NoValue, "none", "none")

\* No detector call is in progress
NoDetector == sample = <<>> /\ threshold = 0 /\ result = NoValue

\* No aggregation or cleaning is in progress
NoPipeline ==
    /\ all_results = <<>>
    /\ aggregated = NoValue
    /\ data = NoValue
    /\ report = NoReport
    /\ script = "none"
    /\ calls = 0

\* No experiment is in progress
NoExperiment ==
    /\ runner = "none"
    /\ n_runs = 0
    /\ script_exists = FALSE
    /\ selected_corpuses = <<>>
    /\ agg_files = <<>>
    /\ logs = <<>>
    /\ attempts = <<>>
    /\ experiment_results = <<>>
    /\ corpus_index = 0
    /\ run_num = 0
    /\ progress_file = NoValue
    /\ summary_file = NoValue

\* No analysis is in progress
NoFitting ==
    /\ analysis = "none"
    /\ results_files = <<>>
    /\ fit_calls = <<>>
    /\ analysis_status = "none"

\* No upgrade to N=10 is in progress
NoUpgrade ==
    /\ existing_n3_runs = <<>>
    /\ n10_results_files = <<>>
    /\ start_run = 0
    /\ target_runs = 0
    /\ next_run = 0
    /\ upgrade_status = "none"

\* No benchmark is in progress
NoBenchmark ==
    /\ num_queries = 0
    /\ ground_truth = FALSE
    /\ bench_calls = <<>>
    /\ bench_pc = "none"
    /\ queries_done = 0
    /\ pending = "none"
    /\ bench_status = "none"

NoHarness == NoExperiment /\ NoFitting /\ NoUpgrade /\ NoBenchmark

\* The state after run_n_benchmarks (n3: at least one successful run) or
\* process_corpus (n7: at least three) aggregated the runs and saved the
\* result.
Init ==
    /\ script \in {"n3", "n7"}
    /\ \E runs \in Lists(CleanPool, 1, MaxRuns) \cup ExactFortyRuns :
          /\ script = "n7" => Len(runs) >= 3
          /\ LET r == AggregateResults(runs, script)
             IN  /\ all_results = r.runs
                 /\ aggregated = r.result
                 /\ data = r.result
    /\ report = NoReport
    /\ calls = 1
    /\ NoDetector
    /\ NoHarness

\* clean_outliers_n10.main on this file
RunCleanN10 ==
    /\ LET outcome == CleanN10(data)
       IN  data' = outcome.data /\ report' = outcome.report
    /\ UNCHANGED <<all_results, aggregated, script, calls, detector, harness>>

\* clean_cold_start_outliers.main on this file
RunCleanColdStart ==
    /\ LET outcome == CleanColdStart(data)
       IN  data' = outcome.data /\ report' = outcome.report
    /\ UNCHANGED <<all_results, aggregated, script, calls, detector, harness>>

\* clean_outliers_aggressive.main on this file (cv_threshold = 40.0)
RunCleanAggressive ==
    /\ LET outcome == CleanAggressive(data, 40 * 100)
       IN  data' = outcome.data /\ report' = outcome.report
    /\ UNCHANGED <<all_results, aggregated, script, calls, detector, harness>>

Next == RunCleanN10 \/ RunCleanColdStart \/ RunCleanAggressive

Spec == Init /\ [][Next]_vars

---------------------------------------------------------------------------
\* Properties of the cleaning pipeline (Spec).  A step of Spec is one call
\* of clean_aggregated_results: data is the file before the call, data' the
\* file after it, report' what the call returned.

Passes == {"n10", "aggressive", "cold_start"}

\* The indices the detector of a pass flags for the statistics entry s
Detected(pass, s) ==
    IF "values" \notin DOMAIN s THEN {}
    ELSE CASE pass = "n10" ->
                 IF Len(s.values) >= 4 THEN IdentifyOutliers(s.values) ELSE {}
           [] pass = "aggressive" ->
                 IF HighCv(s, 40 * 100) /\ Len(s.values) >= 4
                 THEN OutsideBounds(s.values,
                                    CalculateIqrBoundsAggressive(s.values))
                 ELSE {}
           [] pass = "cold_start" ->
                 IF HighCv(s, 40 * 100) /\ Len(s.values) >= 5
                 THEN DetectColdStartPattern(s.values)
                 ELSE {}
           [] OTHER -> {}

\* s with the elements at the 0-based positions idx deleted
DeleteAt(s, idx) ==
    LET tagged == [i \in 1..Len(s) |-> [at |-> i - 1, v |-> s[i]]]
        kept   == SelectSeq(tagged, LAMBDA e : e.at \notin idx)
    IN  [i \in 1..Len(kept) |-> kept[i].v]

RECURSIVE IsSubsequence(_, _)
IsSubsequence(a, b) ==
    IF Len(a) = 0 THEN TRUE
    ELSE IF Len(b) = 0 THEN FALSE
    ELSE IF Head(a) = Head(b) THEN IsSubsequence(Tail(a), Tail(b))
    ELSE IsSubsequence(a, Tail(b))

\* The metrics whose statistics entry differs from the aggregator's
EverRewritten(d) ==
    {m \in DOMAIN d.statistics : d.statistics[m] # aggregated.statistics[m]}

\* C1: a cleaning pass replaces statistics[metric] only when at least 3
\* values are retained: every entry a call replaces is listed in
\* metrics_cleaned and has n >= 3 and at least 3 values, every metric that
\* was ever rewritten has n >= 3, and a metric whose flagged indices would
\* leave fewer than 3 values keeps its entry and is not listed.
C1_RewrittenKeepThree ==
    [][/\ DOMAIN data'.statistics = DOMAIN data.statistics
       /\ \A m \in DOMAIN data.statistics :
             LET old   == data.statistics[m]
                 new   == data'.statistics[m]
                 named == m \in DOMAIN report'.metrics_cleaned
             IN  /\ (new # old \/ named) =>
                        /\ new # old /\ named
                        /\ new.n >= 3
                        /\ Len(new.values) >= 3
                        /\ report'.metrics_cleaned[m].after.n >= 3
                 /\ Len(old.values)
                        - Cardinality(Detected(report'.pass, old)) < 3 =>
                        new = old /\ ~named
       /\ \A m \in EverRewritten(data') :
             data'.statistics[m].n >= 3 /\ Len(data'.statistics[m].values) >= 3
      ]_vars

\* A call has just rewritten a metric down to exactly 3 values
C1_Witness ==
    /\ report.status = "cleaned"
    /\ \E m \in DOMAIN report.metrics_cleaned :
          /\ data.statistics[m].n = 3
          /\ data.statistics[m] # aggregated.statistics[m]

\* The records of outlier_cleaning, one per pass, in a common form
PassOf(method) ==
    CASE method = "iqr_3x" -> "n10"
      [] method \in {"iqr_2x", "iqr_2x_aggressive"} -> "aggressive"
      [] method = "cold_start_detection" -> "cold_start"
      [] OTHER -> "unknown"

PassRecords(d) ==
    IF "outlier_cleaning" \notin DOMAIN d THEN {}
    ELSE LET oc == d.outlier_cleaning
         IN  {[pass            |-> PassOf(oc.method),
               metrics_cleaned |-> oc.metrics_cleaned,
               outliers        |-> oc.total_outliers_detected]}
             \cup {[pass            |-> PassOf(oc[k].method),
                    metrics_cleaned |-> oc[k].metrics_cleaned,
                    outliers        |-> oc[k].total_outliers] :
                   k \in DOMAIN oc \cap {"aggressive_pass", "cold_start_pass"}}

\* C2: cleaning metadata is cumulative: a call of one pass keeps, in
\* outlier_cleaning, the record (method, metrics_cleaned, outlier count) of
\* every other pass that was there before the call.
C2_MetadataCumulative ==
    [][\A r \in PassRecords(data) :
          r.pass # report'.pass => r \in PassRecords(data')]_vars

NoChangeStatus(pass) == IF pass = "cold_start" THEN "no_cold_start" ELSE "no_outliers"

\* C7: a failed gate is a no-op: a metric that is flagged but not accepted
\* keeps its entry, and a call that accepts no metric returns status
\* 'no_outliers' ('no_cold_start' for the cold-start pass), leaves the file
\* as it was and adds no outlier_cleaning metadata.
C7_FailedGateNoOp ==
    [][report'.pass \in Passes =>
          /\ \A m \in DOMAIN data.statistics :
                (Detected(report'.pass, data.statistics[m]) # {}
                    /\ m \notin DOMAIN report'.metrics_cleaned)
                => data'.statistics[m] = data.statistics[m]
          /\ DOMAIN report'.metrics_cleaned = {} =>
                /\ report'.status = NoChangeStatus(report'.pass)
                /\ data' = data
      ]_vars

\* C8: an accepted removal leaves exactly the previous values without the
\* flagged indices, in order, with n, min and max of that list; so every
\* metric's values stay a subsequence of the aggregator's values and
\* n = len(values).
C8_ValuesAreCurrentListMinusFlagged ==
    [][/\ \A m \in DOMAIN report'.metrics_cleaned :
             LET old     == data.statistics[m]
                 new     == data'.statistics[m]
                 flagged == Detected(report'.pass, old)
             IN  /\ flagged # {}
                 /\ report'.metrics_cleaned[m].outlier_indices = flagged
                 /\ new.values = DeleteAt(old.values, flagged)
                 /\ new.n = Len(new.values)
                 /\ new.min = SeqMin(new.values)
                 /\ new.max = SeqMax(new.values)
       /\ \A m \in DOMAIN data'.statistics :
             /\ data'.statistics[m].n = Len(data'.statistics[m].values)
             /\ IsSubsequence(data'.statistics[m].values,
                              aggregated.statistics[m].values)
      ]_vars

\* A pass has just cleaned a metric that an earlier pass had already
\* shortened
C8_Witness ==
    /\ report.status = "cleaned"
    /\ \E m \in DOMAIN report.metrics_cleaned :
          /\ report.metrics_cleaned[m].before.n < aggregated.statistics[m].n
          /\ data.statistics[m].n < report.metrics_cleaned[m].before.n

\* C9: a cleaning pass changes only the statistics entries of the metrics
\* it accepted and the outlier_cleaning metadata: individual_runs, n_runs,
\* mean_result and every other statistics entry are the same before and
\* after the call.
C9_FrameOfAPass ==
    [][/\ DOMAIN data' \ {"outlier_cleaning"} = DOMAIN data \ {"outlier_cleaning"}
       /\ data'.individual_runs = data.individual_runs
       /\ data'.n_runs = data.n_runs
       /\ data'.mean_result = data.mean_result
       /\ DOMAIN data'.statistics = DOMAIN data.statistics
       /\ \A m \in DOMAIN data.statistics \ DOMAIN report'.metrics_cleaned :
             data'.statistics[m] = data.statistics[m]
      ]_vars

\* A pass has cleaned one metric of a file and left another one alone
C9_Witness ==
    /\ report.status = "cleaned"
    /\ DOMAIN report.metrics_cleaned # {}
    /\ DOMAIN data.statistics \ DOMAIN report.metrics_cleaned # {}
    /\ data.individual_runs = aggregated.individual_runs
    /\ data.n_runs = aggregated.n_runs

\* C17: the cold-start pass and the aggressive pass never modify a metric
\* whose stored cv_percent is <= 40 or absent, and the cold-start pass never
\* modifies a metric with fewer than 5 values.
C17_EligibilityFilter ==
    [][report'.pass \in {"aggressive", "cold_start"} =>
          \A m \in DOMAIN data.statistics :
             LET old == data.statistics[m]
             IN  (\/ "cv_percent" \notin DOMAIN old
                  \/ old.cv_percent <= 4000
                  \/ report'.pass = "cold_start" /\ Len(old.values) < 5)
                 => /\ data'.statistics[m] = old
                    /\ m \notin DOMAIN report'.metrics_cleaned
      ]_vars

\* The aggressive pass has left alone a metric whose stored cv_percent is
\* exactly 40 and which has a value outside the 2 * IQR bounds
C17_Witness ==
    /\ report.pass = "aggressive"
    /\ \E m \in DOMAIN data.statistics :
          /\ "cv_percent" \in DOMAIN data.statistics[m]
          /\ data.statistics[m].cv_percent = 4000
          /\ OutsideBounds(data.statistics[m].values,
                 CalculateIqrBoundsAggressive(data.statistics[m].values)) # {}
          /\ data.statistics[m] = aggregated.statistics[m]

\* The statuses a call of clean_aggregated_results returns
ReturnedStatuses == {"cleaned", "no_outliers", "no_cold_start", "no_statistics"}

\* C20: missing fields are never fatal: on a file whose statistics entries
\* lack a field (such as the cv_percent that the N=3 aggregator does not
\* store) every cleaning pass returns a report instead of raising, and
\* leaves a metric without cv_percent as it is.
C20_MissingFieldsNotFatal ==
    [][report'.pass \in Passes =>
          /\ report'.status \in ReturnedStatuses
          /\ \A m \in DOMAIN data.statistics :
                "cv_percent" \notin DOMAIN data.statistics[m] =>
                    /\ data'.statistics[m] = data.statistics[m]
                    /\ m \notin DOMAIN report'.metrics_cleaned
      ]_vars

---------------------------------------------------------------------------
\* SpecAgg: aggregate_results on a list of run records

InitAgg ==
    /\ script \in {"n3", "n7"}
    /\ all_results \in Lists(ShapePool, 1, MaxAggRuns)
    /\ aggregated = NoValue
    /\ data = NoValue
    /\ report = NoReport
    /\ calls = 0
    /\ NoDetector
    /\ NoHarness

\* run_n_benchmarks / process_corpus: aggregate the collected runs and dump
\* the result to aggregated_results.json
AggregateAndSave ==
    /\ calls = 0
    /\ LET r == AggregateResults(all_results, script)
       IN  /\ all_results' = r.runs
           /\ aggregated' = r.result
           /\ data' = r.result
    /\ calls' = 1
    /\ UNCHANGED <<report, script, detector, harness>>

\* aggregate_results called once more on the same list
AggregateAgain ==
    /\ calls >= 1
    /\ calls < MaxCalls
    /\ LET r == AggregateResults(all_results, script)
       IN  /\ all_results' = r.runs
           /\ aggregated' = r.result
    /\ calls' = calls + 1
    /\ UNCHANGED <<data, report, script, detector, harness>>

NextAgg == AggregateAndSave \/ AggregateAgain

SpecAgg == InitAgg /\ [][NextAgg]_vars

\* C3: aggregate_results does not modify its input: the list of run records
\* is after the call what it was before it, and individual_runs holds the
\* records as they were passed in.
C3_InputNotModified ==
    [][/\ all_results' = all_results
       /\ aggregated'.individual_runs = all_results]_vars

\* C4: aggregation is idempotent: a further call on the same list returns
\* the statistics and the mean_result of the call before it.
C4_AggregationIdempotent ==
    [][calls >= 1 =>
          /\ aggregated'.statistics = aggregated.statistics
          /\ aggregated'.mean_result = aggregated.mean_result]_vars

\* field of the mean_result entry equals the mean of metric, where
\* statistics holds that metric
FieldIsMean(entry, field, metric) ==
    metric \in DOMAIN aggregated.statistics =>
        /\ field \in DOMAIN entry
        /\ entry[field] = aggregated.statistics[metric].mean

\* C5: in mean_result every representative field with a mean in statistics
\* equals that mean: ingestion.total_time_sec the mean of ingestion_time,
\* and p50_latency_ms, p95_latency_ms, queries_per_second of the query
\* sub-record the metrics were extracted from the means of those metrics.
C5_MeanResultHoldsMeans ==
    calls >= 1 =>
        LET mean_result == aggregated.mean_result
            q == IF "query_results" \in DOMAIN mean_result
                 THEN SelectQuery(mean_result.query_results)
                 ELSE <<>>
        IN  /\ "ingestion" \in DOMAIN mean_result =>
                  FieldIsMean(mean_result.ingestion,
                              "total_time_sec", "ingestion_time")
            /\ Len(q) > 0 =>
                  /\ FieldIsMean(q[1], "p50_latency_ms", "p50_latency_ms")
                  /\ FieldIsMean(q[1], "p95_latency_ms", "p95_latency_ms")
                  /\ FieldIsMean(q[1], "queries_per_second",
                                 "queries_per_second")

MetricNames ==
    {"ingestion_time", "num_chunks", "p50_latency_ms", "p95_latency_ms",
     "queries_per_second"}

\* field of rec as a sequence of length one, or <<>> when rec has no such
\* field
FieldOf(rec, field) == IF field \in DOMAIN rec THEN <<rec[field]>> ELSE <<>>

\* What a run record reports for a metric: <<v>>, or <<>> for nothing
Reported(run, metric) ==
    IF metric \in {"ingestion_time", "num_chunks"}
    THEN IF "ingestion" \notin DOMAIN run THEN <<>>
         ELSE IF metric = "ingestion_time"
              THEN FieldOf(run.ingestion, "total_time_sec")
              ELSE FieldOf(run.ingestion, "num_chunks")
    ELSE IF "query_results" \notin DOMAIN run THEN <<>>
         ELSE LET q == SelectQuery(run.query_results)
              IN  IF Len(q) = 0 THEN <<>>
                  ELSE IF metric = "p50_latency_ms"
                          /\ "p50_latency_ms" \notin DOMAIN q[1]
                       THEN FieldOf(q[1], "avg_latency_ms")
                       ELSE FieldOf(q[1], metric)

\* The values the first k runs report for a metric, in run order
RECURSIVE Contributions(_, _, _)
Contributions(runs, metric, k) ==
    IF k = 0 THEN <<>>
    ELSE Contributions(runs, metric, k - 1) \o Reported(runs[k], metric)

\* C18: partial coverage: a call of aggregate_results on a list of runs
\* returns statistics[metric] iff at least one run reports a value for the
\* metric; its values are the reported values in run order and n is their
\* number, which is at most n_runs = len(runs).
C18_PartialCoverage ==
    [][LET st == aggregated'.statistics
       IN  /\ aggregated'.n_runs = Len(all_results)
           /\ DOMAIN st \subseteq MetricNames
           /\ \A metric \in MetricNames :
                  LET vals == Contributions(all_results, metric,
                                            Len(all_results))
                  IN  /\ metric \in DOMAIN st <=> Len(vals) > 0
                      /\ metric \in DOMAIN st =>
                             /\ st[metric].values = vals
                             /\ st[metric].n = Len(vals)
                             /\ st[metric].n <= aggregated'.n_runs
      ]_vars

\* An aggregation of two runs holds a metric that only one of them reports
\* and lacks none that either reports
C18_Witness ==
    /\ calls >= 1
    /\ aggregated.n_runs = 2
    /\ \E m \in DOMAIN aggregated.statistics :
          aggregated.statistics[m].n = 1

\* The top_k == 3 sub-record of a run as a sequence of length one (the
\* first such item of a list, the key '3' and otherwise 'top_k_3' of a
\* mapping), or <<>> when the run has none
TopK3Record(run) ==
    IF "query_results" \notin DOMAIN run THEN <<>>
    ELSE LET items == run.query_results.items
             at(S) == CHOOSE i \in S : \A j \in S : i <= j
         IN  IF run.query_results.kind = "list"
             THEN LET hits == {i \in 1..Len(items) :
                                  /\ "top_k" \in DOMAIN items[i]
                                  /\ items[i].top_k = 3}
                  IN  IF hits = {} THEN <<>> ELSE <<items[at(hits)]>>
             ELSE LET key(k) == {i \in 1..Len(items) : items[i].key = k}
                  IN  IF key("3") # {} THEN <<items[at(key("3"))].value>>
                      ELSE IF key("top_k_3") # {}
                      THEN <<items[at(key("top_k_3"))].value>>
                      ELSE <<>>

\* The query values the first k runs measured at top_k == 3, in run order
RECURSIVE TopK3Values(_, _, _)
TopK3Values(runs, metric, k) ==
    IF k = 0 THEN <<>>
    ELSE LET q == TopK3Record(runs[k])
             v == IF Len(q) = 0 THEN <<>>
                  ELSE IF metric = "p50_latency_ms"
                          /\ "p50_latency_ms" \notin DOMAIN q[1]
                       THEN FieldOf(q[1], "avg_latency_ms")
                       ELSE FieldOf(q[1], metric)
         IN  TopK3Values(runs, metric, k - 1) \o v

\* C19: query metrics are extracted only from the top_k == 3 sub-record: the
\* values of p50_latency_ms, p95_latency_ms and queries_per_second that a
\* call of aggregate_results collects are those of the runs' top_k == 3
\* sub-records, and a run without such a sub-record contributes none.
C19_OnlyTopK3 ==
    [][\A metric \in {"p50_latency_ms", "p95_latency_ms", "queries_per_second"} :
          LET vals == TopK3Values(all_results, metric, Len(all_results))
              st   == aggregated'.statistics
          IN  IF Len(vals) = 0 THEN metric \notin DOMAIN st
              ELSE metric \in DOMAIN st /\ st[metric].values = vals
      ]_vars

---------------------------------------------------------------------------
\* Modified-Z-score detector (plot_resource_utilization.py and
\* verify_chroma_n10_stats.py).  A z-score is the fraction num / den, den > 0.

\* 2 * np.median(s)
Median2(s) ==
    LET t == SortSeq(s, LAMBDA a, b : a < b)
        n == Len(t)
    IN  IF n % 2 = 1 THEN 2 * t[(n + 1) \div 2]
        ELSE t[n \div 2] + t[n \div 2 + 1]

Abs(x) == IF x < 0 THEN 0 - x ELSE x

\* The scores with the deviations themselves where mad == 0
ModifiedZscoresRawAtZeroMad(input) ==
    LET median2 == Median2(input)
        dev     == [i \in 1..Len(input) |-> 2 * input[i] - median2]
        mad4    == Median2([i \in 1..Len(input) |-> Abs(dev[i])])
    IN  [i \in 1..Len(input) |->
            [num |-> 1349 * dev[i],
             den |-> IF mad4 = 0 THEN 1000 ELSE 1000 * mad4]]

\* calculate_modified_zscore of verify_chroma_n10_stats.py, for len(data) > 0:
\* 0.6745 * (x - median) / mad, or all zeros when mad == 0.
\* With dev[i] = 2 * (x[i] - median) and mad4 = 4 * mad the score is
\* 0.6745 * 2 * dev[i] / mad4 = 1349 * dev[i] / (1000 * mad4).
ModifiedZscores(input) ==
    LET median2 == Median2(input)
        dev     == [i \in 1..Len(input) |-> 2 * input[i] - median2]
        mad4    == Median2([i \in 1..Len(input) |-> Abs(dev[i])])
    IN  IF mad4 = 0
        THEN [i \in 1..Len(input) |-> [num |-> 0, den |-> 1]]
        ELSE [i \in 1..Len(input) |->
                 [num |-> 1349 * dev[i], den |-> 1000 * mad4]]

\* calculate_modified_zscore of plot_resource_utilization.py
CalculateModifiedZscore(input) ==
    IF Len(input) = 0 THEN <<>> ELSE ModifiedZscores(input)

\* abs(zscore) > threshold, threshold in hundredths
Exceeds(zscore, limit) == 100 * Abs(zscore.num) > limit * zscore.den

\* The loop of remove_outliers: [cleaned, outliers]
Partition(input, zscores, limit) ==
    LET flagged == {i \in 1..Len(input) : Exceeds(zscores[i], limit)}
        pick(S) == SelectSeq([i \in 1..Len(input) |-> [at |-> i, v |-> input[i]]],
                             LAMBDA e : e.at \in S)
        strip(es) == [i \in 1..Len(es) |-> es[i].v]
    IN  [cleaned  |-> strip(pick((1..Len(input)) \ flagged)),
         outliers |-> strip(pick(flagged))]

\* remove_outliers giving up when fewer than 4 values would remain
RemoveOutliersPlotKeepsFour(input, limit) ==
    IF Len(input) <= 3 THEN [cleaned |-> input, outliers |-> <<>>]
    ELSE LET r == Partition(input, CalculateModifiedZscore(input), limit)
         IN  IF Len(r.cleaned) < 4
             THEN [cleaned |-> input, outliers |-> <<>>]
             ELSE r

\* plot_resource_utilization.remove_outliers
RemoveOutliersPlot(input, limit) ==
    IF Len(input) <= 3 THEN [cleaned |-> input, outliers |-> <<>>]
    ELSE LET r == Partition(input, CalculateModifiedZscore(input), limit)
         IN  IF Len(r.cleaned) < 3
             THEN [cleaned |-> input, outliers |-> <<>>]
             ELSE r

\* verify_chroma_n10_stats.remove_outliers
RemoveOutliersVerify(input, limit) ==
    IF Len(input) <= 3 THEN [cleaned |-> input, outliers |-> <<>>]
    ELSE Partition(input, ModifiedZscores(input), limit)

---------------------------------------------------------------------------
\* SpecZ: a detector called on a list

ZValues == {10, 20, 200}

\* thresholds 0, 0.5 and the default 3.5
ZThresholds == {0, 50, 350}

\* Samples with a slow start, the same values in another order, and samples
\* with a value on an IQR bound
ZExamples ==
    {<<3000, 2800, 950, 940, 960, 930, 950, 970, 940, 960>>,
     <<30, 28, 9, 8, 9, 10>>,
     <<9, 8, 9, 10, 30, 28>>,
     <<10, 10, 10, 20, 40>>,
     <<10, 10, 10, 20, 50>>,
     <<10, 10, 10, 20, 55>>,
     <<50, 0, 0, 0, 0>>,
     <<0, 0, 0, 0, 0>>}

InitZ ==
    /\ sample \in Lists(ZValues, 0, MaxLen) \cup ZExamples
    /\ threshold \in ZThresholds
    /\ result = NoValue
    /\ all_results = <<>>
    /\ aggregated = NoValue
    /\ data = NoValue
    /\ report = NoReport
    /\ script = "none"
    /\ calls = 0
    /\ NoHarness

CallRemoveOutliersPlot ==
    /\ result' = [impl |-> "plot_resource_utilization"]
                 @@ RemoveOutliersPlot(sample, threshold)
    /\ UNCHANGED <<pipeline, harness, sample, threshold>>

CallRemoveOutliersVerify ==
    /\ result' = [impl |-> "verify_chroma_n10_stats"]
                 @@ RemoveOutliersVerify(sample, threshold)
    /\ UNCHANGED <<pipeline, harness, sample, threshold>>

\* plot_resource_utilization.calculate_modified_zscore(sample)
CallModifiedZscorePlot ==
    /\ result' = [impl    |-> "plot_resource_utilization",
                  zscores |-> CalculateModifiedZscore(sample)]
    /\ UNCHANGED <<pipeline, harness, sample, threshold>>

\* verify_chroma_n10_stats.calculate_modified_zscore(sample); for an empty
\* list the median is nan, nan == 0 is false and the comprehension is empty
CallModifiedZscoreVerify ==
    /\ result' = [impl    |-> "verify_chroma_n10_stats",
                  zscores |-> IF Len(sample) = 0 THEN <<>>
                              ELSE ModifiedZscores(sample)]
    /\ UNCHANGED <<pipeline, harness, sample, threshold>>

\* clean_outliers_n10.identify_outliers(sample)
CallIdentifyOutliers ==
    /\ result' = [impl            |-> "clean_outliers_n10",
                  outlier_indices |-> IdentifyOutliers(sample),
                  bounds          |-> CalculateIqrBoundsN10(sample)]
    /\ UNCHANGED <<pipeline, harness, sample, threshold>>

\* clean_outliers_aggressive.calculate_iqr_bounds(sample) and the
\* comprehension that picks the values outside the bounds
CallIqrAggressive ==
    /\ result' = [impl            |-> "clean_outliers_aggressive",
                  outlier_indices |->
                      OutsideBounds(sample,
                                    CalculateIqrBoundsAggressive(sample)),
                  bounds          |-> CalculateIqrBoundsAggressive(sample)]
    /\ UNCHANGED <<pipeline, harness, sample, threshold>>

\* clean_cold_start_outliers.detect_cold_start_pattern(sample)
CallDetectColdStartPattern ==
    /\ result' = [impl            |-> "clean_cold_start_outliers",
                  outlier_indices |-> DetectColdStartPattern(sample)]
    /\ UNCHANGED <<pipeline, harness, sample, threshold>>

NextZ ==
    \/ CallRemoveOutliersPlot
    \/ CallRemoveOutliersVerify
    \/ CallModifiedZscorePlot
    \/ CallModifiedZscoreVerify
    \/ CallIdentifyOutliers
    \/ CallIqrAggressive
    \/ CallDetectColdStartPattern

SpecZ == InitZ /\ [][NextZ]_vars

\* C10: remove_outliers returns the original data with no outliers, or a
\* cleaned list of at least 3 values, in both implementations and for every
\* input and threshold.
C10_CleanedKeepsThree ==
    "cleaned" \in DOMAIN result =>
        \/ result.cleaned = sample /\ result.outliers = <<>>
        \/ Len(result.cleaned) >= 3

\* More than half of the values of s equal its median: the median absolute
\* deviation is 0
ZeroMad(s) ==
    /\ Len(s) > 0
    /\ 2 * Cardinality({i \in 1..Len(s) : 2 * s[i] = Median2(s)}) > Len(s)

\* C11: when the median absolute deviation of the input is 0,
\* calculate_modified_zscore returns all zeros and remove_outliers flags no
\* value, whatever the threshold >= 0.
C11_ZeroMadFlagsNothing ==
    ZeroMad(sample) =>
        /\ "zscores" \in DOMAIN result =>
               /\ Len(result.zscores) = Len(sample)
               /\ \A i \in 1..Len(sample) :
                      result.zscores[i].num = 0 /\ result.zscores[i].den > 0
        /\ "cleaned" \in DOMAIN result =>
               result.cleaned = sample /\ result.outliers = <<>>

\* remove_outliers was called with threshold 0 on four or more values of
\* which more than half, but not all, equal the median
C11_Witness ==
    /\ "cleaned" \in DOMAIN result
    /\ ZeroMad(sample)
    /\ Len(sample) >= 4
    /\ threshold = 0
    /\ \E i \in 1..Len(sample) : 2 * sample[i] # Median2(sample)

\* C12: below its minimum sample size every detector answers 'no
\* outliers': the IQR detectors return no indices and bounds (-inf, +inf)
\* for fewer than 4 values, remove_outliers returns the input and no
\* outliers for 3 or fewer values, and detect_cold_start_pattern returns no
\* indices for fewer than 5 values.
C12_BelowMinimumNoOutliers ==
    /\ (result.impl \in {"clean_outliers_n10", "clean_outliers_aggressive"}
           /\ Len(sample) < 4)
       => result.outlier_indices = {} /\ result.bounds.inf
    /\ ("cleaned" \in DOMAIN result /\ Len(sample) <= 3)
       => result.cleaned = sample /\ result.outliers = <<>>
    /\ (result.impl = "clean_cold_start_outliers" /\ Len(sample) < 5)
       => result.outlier_indices = {}

\* detect_cold_start_pattern was called on four values that start with a
\* value ten times the others
C12_Witness ==
    /\ result.impl = "clean_cold_start_outliers"
    /\ Len(sample) = 4
    /\ sample[1] >= 10 * sample[2]
    /\ sample[2] = sample[3] /\ sample[3] = sample[4]

IqrImpls == {"clean_outliers_n10", "clean_outliers_aggressive"}

\* The 0-based positions of the values of s that lie exactly on a bound of b
OnBound(s, b) ==
    {i \in 0..(Len(s) - 1) :
        ~b.inf /\ (4 * s[i + 1] = b.lower4 \/ 4 * s[i + 1] = b.upper4)}

\* The indices each tier flags for the sample of the call in progress: the
\* returned ones for the tier that was called
FlaggedBy(impl) ==
    IF result.impl = impl THEN result.outlier_indices
    ELSE IF impl = "clean_outliers_n10" THEN IdentifyOutliers(sample)
    ELSE OutsideBounds(sample, CalculateIqrBoundsAggressive(sample))

\* C13 (as amended): for a sample of at least 4 values the indices flagged
\* with k = 2 are a superset of those flagged with k = 3, and a value lying
\* exactly on a bound of a tier is not flagged by that tier (a value on a
\* k = 2 bound is flagged by neither tier).
C13_TiersNested ==
    (result.impl \in IqrImpls /\ Len(sample) >= 4) =>
        /\ FlaggedBy("clean_outliers_n10")
               \subseteq FlaggedBy("clean_outliers_aggressive")
        /\ OnBound(sample, CalculateIqrBoundsN10(sample))
               \cap FlaggedBy("clean_outliers_n10") = {}
        /\ OnBound(sample, CalculateIqrBoundsAggressive(sample))
               \cap FlaggedBy("clean_outliers_aggressive") = {}
        /\ OnBound(sample, CalculateIqrBoundsAggressive(sample))
               \cap FlaggedBy("clean_outliers_n10") = {}

\* The aggressive tier has flagged a value that lies exactly on the upper
\* bound of the conservative tier
C13_Witness ==
    /\ result.impl = "clean_outliers_aggressive"
    /\ Len(sample) >= 4
    /\ \E i \in result.outlier_indices :
          i \in OnBound(sample, CalculateIqrBoundsN10(sample))

\* C13 (as stated): the indices flagged with k = 2 are a superset of those
\* flagged with k = 3, and a value lying exactly on a bound of either tier
\* is flagged by neither tier.
C13_OnBoundFlaggedByNeither ==
    (result.impl \in IqrImpls /\ Len(sample) >= 4) =>
        /\ FlaggedBy("clean_outliers_n10")
               \subseteq FlaggedBy("clean_outliers_aggressive")
        /\ \A i \in OnBound(sample, CalculateIqrBoundsN10(sample))
                     \cup OnBound(sample, CalculateIqrBoundsAggressive(sample)) :
               /\ i \notin FlaggedBy("clean_outliers_n10")
               /\ i \notin FlaggedBy("clean_outliers_aggressive")

\* C14: detect_cold_start_pattern returns no index or the leading indices
\* 0..n-1 with n in {1, 2, 3}, and a non-empty result leaves at least 3
\* values (n <= len(values) - 3).
C14_OnlyLeadingPrefix ==
    result.impl = "clean_cold_start_outliers" =>
        \/ result.outlier_indices = {}
        \/ \E n \in 1..3 :
              /\ result.outlier_indices = 0..(n - 1)
              /\ n <= Len(sample) - 3

\* detect_cold_start_pattern has returned the first three of six values
C14_Witness ==
    /\ result.impl = "clean_cold_start_outliers"
    /\ Len(sample) = 6
    /\ result.outlier_indices = 0..2

\* The values of s after its first n values
After(s, n) == SubSeq(s, n + 1, Len(s))

\* mean(s[:n]) >= 3.0 * mean(s[n:]), with a CV of s[n:] that is defined
SlowPrefix(s, n) ==
    /\ n < Len(s)
    /\ SeqSum(SubSeq(s, 1, n)) * (Len(s) - n) >= 3 * SeqSum(After(s, n)) * n
    /\ SeqSum(After(s, n)) # 0

\* cv(all) - cv(remaining)
CvImprovement(s, n) == CvOf(s) - CvOf(After(s, n))

\* The result the selection rule prescribes among the prefix lengths in
\* lengths: the indices 0..n-1 of a best n, if its improvement exceeds 15
SelectedAmong(lengths, picked) ==
    IF \E n \in lengths : CvImprovement(sample, n) > 1500
    THEN \E n \in lengths :
            /\ picked = 0..(n - 1)
            /\ \A m \in lengths :
                   CvImprovement(sample, m) <= CvImprovement(sample, n)
    ELSE picked = {}

SpecExample == <<3000, 2800, 950, 940, 960, 930, 950, 970, 940, 960>>

C16_OrderDependent ==
    result.impl = "clean_cold_start_outliers" =>
        /\ sample = <<30, 28, 9, 8, 9, 10>> => result.outlier_indices = {0, 1}
        /\ sample = <<9, 8, 9, 10, 30, 28>> => result.outlier_indices = {}
        /\ result.outlier_indices # {} =>
               LET n == Cardinality(result.outlier_indices)
               IN  /\ result.outlier_indices = 0..(n - 1)
                   /\ n < Len(sample)
                   /\ SeqSum(SubSeq(sample, 1, n)) * (Len(sample) - n)
                          >= 3 * SeqSum(After(sample, n)) * n
                   /\ \A i \in n..(Len(sample) - 1) :
                          i \notin result.outlier_indices

\* The detector has returned nothing for the sample whose two slow values
\* come last
C16_Witness ==
    /\ result.impl = "clean_cold_start_outliers"
    /\ sample = <<9, 8, 9, 10, 30, 28>>
    /\ result.outlier_indices = {}

---------------------------------------------------------------------------
\* SpecExp: main of run_scaling_experiment_n3.py and of
\* run_scaling_n2_additional.py, one step per benchmark subprocess

CorpusNames == <<"baseline", "1k", "10k", "50k", "full">>

\* The results.json a benchmark subprocess writes, and the single-run
\* result run_scaling_n2_additional.py reuses as run 1
ExpResults == {Run(1900, 2200)}

ExistingResult == Run(2400, 9000)

\* An aggregated_results.json left by an earlier invocation
PreviousAggregate == AggregateResults(<<Run(1900, 2200)>>, "n3").result

\* What the subprocess did: subprocess.run returned with a return code, or
\* raised TimeoutExpired after 7200 s
Outcomes == {"exit_zero", "exit_nonzero", "timeout"}

\* The corpus main is at
Corpus == selected_corpuses[corpus_index]

\* The runs of one corpus: range(1, n_runs + 1), or [2, 3] after the reused
\* run 1
FirstRun == IF runner = "n3" THEN 1 ELSE 2

LastRun == IF runner = "n3" THEN n_runs ELSE 3

\* all_results before the loop over the runs
StartList == IF runner = "n3" THEN <<>> ELSE <<ExistingResult>>

\* A variant in which the reused run alone is enough
EnoughRunsAnyResult(collected) == Len(collected) > 0

\* The successful runs a corpus needs: successful_runs == 0 returns None
\* in run_n_benchmarks, len(all_results) < 2 in process_corpus
EnoughRuns(collected) ==
    IF runner = "n3" THEN Len(collected) > 0 ELSE Len(collected) >= 2

\* run_single_benchmark: the returned pair and the benchmark.log it wrote
\* (NoValue: none written).  results is the content of results.json after
\* the subprocess, NoValue when the file is absent.
RunSingleBenchmark(outcome, results) ==
    IF ~script_exists
    THEN [returned |-> [success |-> FALSE, results |-> NoValue],
          log      |-> NoValue,
          launched |-> FALSE]
    ELSE IF outcome = "timeout"
    THEN [returned |-> [success |-> FALSE, results |-> NoValue],
          log      |-> NoValue,
          launched |-> TRUE]
    ELSE IF outcome = "exit_nonzero"
    THEN [returned |-> [success |-> FALSE, results |-> NoValue],
          log      |-> [returncode |-> 1],
          launched |-> TRUE]
    ELSE [returned |-> [success |-> TRUE, results |-> results],
          log      |-> [returncode |-> 0],
          launched |-> TRUE]

\* The entry main appends after run_n_benchmarks / process_corpus returned
BenchmarkEntry(name, agg) ==
    LET status == IF agg # NoValue THEN "success" ELSE "failed"
        count  == IF agg # NoValue THEN agg.n_runs ELSE 0
    IN  IF runner = "n3"
        THEN [name |-> name, status |-> status, n_successful_runs |-> count]
        ELSE [name |-> name, status |-> status, n_runs |-> count]

SkippedEntry(name) ==
    [name |-> name, status |-> "skipped", aggregated_file |-> name]

InitExp ==
    /\ runner \in {"n3", "n2_additional"}
    /\ n_runs \in IF runner = "n3" THEN 1..MaxExpRuns ELSE {3}
    /\ script_exists \in BOOLEAN
    /\ \E k \in 1..MaxCorpora : selected_corpuses = SubSeq(CorpusNames, 1, k)
    /\ agg_files \in [{selected_corpuses[k] : k \in 1..Len(selected_corpuses)}
                        -> {NoValue, PreviousAggregate}]
    /\ logs = [key \in (DOMAIN agg_files) \X (1..LastRun) |-> NoValue]
    /\ attempts = [key \in (DOMAIN agg_files) \X (1..LastRun) |-> NoValue]
    /\ experiment_results = <<>>
    /\ corpus_index = 1
    /\ run_num = FirstRun
    /\ progress_file = NoValue
    /\ summary_file = NoValue
    /\ all_results = <<>>
    /\ aggregated = NoValue
    /\ data = NoValue
    /\ report = NoReport
    /\ script = "n3"
    /\ calls = 0
    /\ NoDetector
    /\ NoFitting
    /\ NoUpgrade
    /\ NoBenchmark

\* main, "Check if already completed": the corpus has an
\* aggregated_results.json
SkipCorpus ==
    /\ corpus_index <= Len(selected_corpuses)
    /\ agg_files[Corpus] # NoValue
    /\ experiment_results' = Append(experiment_results, SkippedEntry(Corpus))
    /\ corpus_index' = corpus_index + 1
    /\ UNCHANGED <<runner, n_runs, script_exists, selected_corpuses, agg_files,
                   logs, attempts, run_num, progress_file, summary_file,
                   pipeline, detector, fitting, upgrade, benchmark>>

\* One iteration of the loop over the runs in run_n_benchmarks /
\* process_corpus; after the last run the function aggregates, saves and
\* returns, and main appends the entry and saves the progress file.
RunBenchmark ==
    /\ corpus_index <= Len(selected_corpuses)
    /\ agg_files[Corpus] = NoValue
    /\ \E outcome \in Outcomes, results \in ExpResults \cup {NoValue} :
          LET call      == RunSingleBenchmark(outcome, results)
              before    == IF run_num = FirstRun THEN StartList ELSE all_results
              collected == IF call.returned.success
                              /\ call.returned.results # NoValue
                           THEN Append(before, call.returned.results)
                           ELSE before
              agg       == AggregateResults(collected, "n3")
          IN  /\ attempts' = [attempts EXCEPT ![<<Corpus, run_num>>] =
                                  [outcome  |-> IF call.launched THEN outcome
                                                ELSE "not_launched",
                                   returned |-> call.returned]]
              /\ logs' = IF call.log = NoValue THEN logs
                         ELSE [logs EXCEPT ![<<Corpus, run_num>>] = call.log]
              /\ IF run_num < LastRun
                 THEN /\ all_results' = collected
                      /\ run_num' = run_num + 1
                      /\ UNCHANGED <<aggregated, agg_files, experiment_results,
                                     corpus_index, progress_file>>
                 ELSE /\ all_results' = IF EnoughRuns(collected) THEN agg.runs
                                        ELSE collected
                      /\ aggregated' = IF EnoughRuns(collected) THEN agg.result
                                       ELSE NoValue
                      /\ agg_files' = IF EnoughRuns(collected)
                                      THEN [agg_files EXCEPT ![Corpus] = agg.result]
                                      ELSE agg_files
                      /\ experiment_results' =
                             Append(experiment_results,
                                    BenchmarkEntry(Corpus, aggregated'))
                      /\ progress_file' = [benchmarks |-> experiment_results']
                      /\ corpus_index' = corpus_index + 1
                      /\ run_num' = FirstRun
    /\ UNCHANGED <<runner, n_runs, script_exists, selected_corpuses,
                   summary_file, data, report, script, calls, detector,
                   fitting, upgrade, benchmark>>

\* main, "Final summary"
WriteSummary ==
    /\ corpus_index > Len(selected_corpuses)
    /\ summary_file = NoValue
    /\ summary_file' = [benchmarks |-> experiment_results]
    /\ UNCHANGED <<runner, n_runs, script_exists, selected_corpuses, agg_files,
                   logs, attempts, experiment_results, corpus_index, run_num,
                   progress_file, pipeline, detector, fitting, upgrade, benchmark>>

NextExp == SkipCorpus \/ RunBenchmark \/ WriteSummary

SpecExp == InitExp /\ [][NextExp]_vars

---------------------------------------------------------------------------
\* Claims about the experiment runners

\* The runs of a corpus that were attempted and failed in the subprocess
FailedExternally(key) ==
    /\ attempts[key] # NoValue
    /\ attempts[key].outcome \in {"exit_nonzero", "timeout"}

\* The runs of corpus name that returned results
Successful(name) ==
    {r \in FirstRun..LastRun :
        /\ attempts[<<name, r>>] # NoValue
        /\ attempts[<<name, r>>].returned.success
        /\ attempts[<<name, r>>].returned.results # NoValue}

EntriesOf(name) ==
    {k \in 1..Len(experiment_results) : experiment_results[k].name = name}

\* The corpora main is through with
Processed == SubSeq(selected_corpuses, 1, corpus_index - 1)

\* A failed subprocess returns (False, None), the failed run is not among
\* the aggregated ones, the later runs and corpora are still processed and
\* every corpus gets exactly one entry
FailuresContained ==
    /\ \A key \in DOMAIN attempts :
          FailedExternally(key) =>
             attempts[key].returned = [success |-> FALSE, results |-> NoValue]
    /\ \A k \in 1..Len(Processed) :
          LET name == Processed[k]
          IN  /\ Cardinality(EntriesOf(name)) = 1
              /\ \A e \in EntriesOf(name) :
                    /\ experiment_results[e].status
                          \in {"success", "failed", "skipped"}
                    /\ experiment_results[e].status # "skipped"
                          => \A r \in FirstRun..LastRun :
                                attempts[<<name, r>>] # NoValue
                    /\ experiment_results[e].status = "success"
                          => agg_files[name].n_runs
                                = Cardinality(Successful(name)) + Len(StartList)
    /\ summary_file # NoValue => Len(Processed) = Len(selected_corpuses)

\* C21: a benchmark subprocess that exits non-zero or exceeds the timeout
\* is recorded in the run's benchmark.log, run_single_benchmark returns
\* (False, None), the run is excluded from aggregation, the remaining runs
\* and corpora are still processed, and each corpus ends with exactly one
\* entry of status success, failed or skipped.
C21_ExternalFailuresContained ==
    /\ \A key \in DOMAIN attempts :
          FailedExternally(key) => logs[key] # NoValue
    /\ FailuresContained

StatusOf(name) == {experiment_results[e].status : e \in EntriesOf(name)}

\* A step leaves a corpus that has an aggregated_results.json alone
LeftAlone(name) ==
    /\ agg_files'[name] = agg_files[name]
    /\ \A r \in 1..LastRun : attempts'[<<name, r>>] = attempts[<<name, r>>]
    /\ (corpus_index <= Len(selected_corpuses) /\ Corpus = name
           /\ corpus_index' # corpus_index)
          => /\ Len(experiment_results') = Len(experiment_results) + 1
             /\ experiment_results'[Len(experiment_results')].name = name
             /\ experiment_results'[Len(experiment_results')].status = "skipped"

\* C30: a corpus whose aggregated_results.json already exists gets status
\* 'skipped', no benchmark subprocess is launched for it and the file is
\* not rewritten; a corpus for which every run fails gets status 'failed'
\* and no aggregated_results.json is written for it.
C30_Resumable ==
    /\ [][\A name \in DOMAIN agg_files :
             agg_files[name] # NoValue => LeftAlone(name)]_vars
    /\ [](\A k \in 1..Len(Processed) :
             LET name == Processed[k]
             IN  (StatusOf(name) # {"skipped"} /\ Successful(name) = {})
                    => /\ StatusOf(name) = {"failed"}
                       /\ agg_files[name] = NoValue)

\* One corpus was skipped and, after it, one was run with every run failing
C30_Witness ==
    /\ Len(Processed) = 2
    /\ StatusOf(Processed[1]) = {"skipped"}
    /\ StatusOf(Processed[2]) = {"failed"}
    /\ script_exists
    /\ \A r \in FirstRun..LastRun : FailedExternally(<<Processed[2], r>>)

---------------------------------------------------------------------------
\* calculate_stats of analyze_scaling_with_stats.py and aggregate_runs of
\* run_pgvector_scaling_experiment.py.  The confidence interval of
\* calculate_stats (ci_lower, ci_upper) is left out.

\* np.std(arr, ddof=1) if n > 1 else 0: sqrt(Q / (n * (n - 1)))
SampleStd(values) ==
    IF Len(values) > 1
    THEN Isqrt((SqDev(values) * Len(values)) \div (Len(values) - 1))
            \div Len(values)
    ELSE 0

\* std / mean * 100 with that std, for a sum that is not 0
SampleCvOf(values) ==
    IF Len(values) > 1
    THEN (10000 * Isqrt((SqDev(values) * Len(values)) \div (Len(values) - 1)))
            \div SeqSum(values)
    ELSE 0

\* calculate_stats past the n == 0 branch
StatsOfArray(values) ==
    [mean |-> Mean(values),
     std  |-> SampleStd(values),
     min  |-> SeqMin(values),
     max  |-> SeqMax(values),
     cv   |-> IF SeqSum(values) > 0 THEN SampleCvOf(values) ELSE 0,
     n    |-> Len(values)]

\* calculate_stats without the n == 0 branch: np.mean of an empty array is
\* nan (None here)
CalculateStatsNanOnEmpty(values) ==
    IF Len(values) = 0
    THEN [mean |-> None, std |-> 0, min |-> None, max |-> None, cv |-> 0,
          n |-> 0]
    ELSE StatsOfArray(values)

CalculateStats(values) ==
    IF Len(values) = 0
    THEN [mean |-> 0, std |-> 0, min |-> 0, max |-> 0, cv |-> 0, n |-> 0]
    ELSE StatsOfArray(values)

\* aggregated[key] of aggregate_runs for a non-empty list of values
AggregateRunsEntry(values) ==
    [mean |-> Mean(values),
     std  |-> Std(values),
     min  |-> SeqMin(values),
     max  |-> SeqMax(values),
     cv   |-> IF SeqSum(values) > 0 THEN CvOf(values) ELSE 0]

---------------------------------------------------------------------------
\* SpecStats: a statistics function called on a list

StatValues == {0 - 300, 0, 100, 300}

InitStats ==
    /\ sample \in Lists(StatValues, 0, MaxSample)
    /\ threshold = 0
    /\ result = NoValue
    /\ NoPipeline
    /\ NoHarness

\* calculate_statistics(sample) of the three cleaning scripts
CallCalculateStatistics ==
    /\ result' = [impl  |-> "calculate_statistics",
                  stats |-> CalculateStatistics(sample)]
    /\ UNCHANGED <<pipeline, harness, sample, threshold>>

\* analyze_scaling_with_stats.calculate_stats(sample)
CallCalculateStats ==
    /\ result' = [impl  |-> "calculate_stats",
                  stats |-> CalculateStats(sample)]
    /\ UNCHANGED <<pipeline, harness, sample, threshold>>

\* run_scaling_n7_additional.aggregate_results: the statistics of one
\* metric whose values are sample ("if values:")
CallAggregateStatistics ==
    /\ sample # <<>>
    /\ result' = [impl  |-> "aggregate_results",
                  stats |-> AggregateStatistics(sample, "n7")]
    /\ UNCHANGED <<pipeline, harness, sample, threshold>>

\* run_pgvector_scaling_experiment.aggregate_runs: the entry of one metric
\* whose values are sample ("if values:")
CallAggregateRuns ==
    /\ sample # <<>>
    /\ result' = [impl  |-> "aggregate_runs",
                  stats |-> AggregateRunsEntry(sample)]
    /\ UNCHANGED <<pipeline, harness, sample, threshold>>

NextStats ==
    \/ CallCalculateStatistics
    \/ CallCalculateStats
    \/ CallAggregateStatistics
    \/ CallAggregateRuns

SpecStats == InitStats /\ [][NextStats]_vars

\* The CV field of a returned statistics record
CvField(stats) ==
    IF "cv_percent" \in DOMAIN stats THEN stats.cv_percent ELSE stats.cv

\* C22: every statistics function returns mean, std, min, max and the CV
\* field equal to 0 and n = 0 for an empty input, without raising.
C22_EmptySampleAllZero ==
    ("stats" \in DOMAIN result /\ sample = <<>>)
       => /\ result.stats.mean = 0
          /\ result.stats.std = 0
          /\ result.stats.min = 0
          /\ result.stats.max = 0
          /\ CvField(result.stats) = 0
          /\ result.stats.n = 0

\* calculate_stats was called on the empty list
C22_Witness ==
    /\ sample = <<>>
    /\ result.impl = "calculate_stats"
    /\ result.stats.n = 0

\* std / mean * 100 with the std of the place that computes it
StdOverMean(impl, s) ==
    IF impl = "calculate_stats" THEN SampleCvOf(s) ELSE CvOf(s)

\* C23: for every non-empty sample, every place that computes a CV yields
\* 0 when the mean is 0 and std/mean*100 otherwise, unclamped, also when
\* the mean is negative.
C23_CvRule ==
    ("stats" \in DOMAIN result /\ sample # <<>>)
       => CvField(result.stats) =
             IF SeqSum(sample) = 0 THEN 0
             ELSE StdOverMean(result.impl, sample)

---------------------------------------------------------------------------
\* fit_scaling_curve (the same function in analyze_scaling_results.py and
\* analyze_scaling_with_stats.py) and its callers.  A call is recorded as
\* [x, y, raised, finite]: whether it raised, and whether the returned
\* (a, b, r_squared) holds numbers (finite) or nan.

\* np.amax(log_x) == np.amin(log_x): np.log maps 0 to -inf and a negative
\* value to nan, and nan == nan is false
Identical(x) ==
    /\ \A i \in 1..Len(x) : x[i] >= 0
    /\ \A i, j \in 1..Len(x) : x[i] = x[j]

Positive(s) == \A i \in 1..Len(s) : s[i] > 0

\* np.log never raises (it warns); stats.linregress raises ValueError for
\* empty input and for more than one point with identical x, and returns
\* nan for one point and for input holding -inf or nan
FitScalingCurve(x, y) ==
    [x |-> x, y |-> y,
     raised |-> Len(x) = 0 \/ (Len(x) > 1 /\ Identical(x)),
     finite |-> Positive(x) /\ Positive(y) /\ Len(x) >= 2 /\ ~Identical(x)]

\* The calls made until one raises
RECURSIVE UpToFirstRaise(_)
UpToFirstRaise(planned) ==
    IF planned = <<>> THEN <<>>
    ELSE IF Head(planned).raised THEN <<Head(planned)>>
    ELSE <<Head(planned)>> \o UpToFirstRaise(Tail(planned))

RECURSIVE SortedSeq(_)
SortedSeq(S) ==
    IF S = {} THEN <<>>
    ELSE <<SetMin(S)>> \o SortedSeq(S \ {SetMin(S)})

\* analyze_scaling_results: extract_metrics and the calls of
\* create_scaling_plots (ingestion time, then per top_k the latency panel
\* and the exponent comparison)
PlannedResults(files) ==
    LET chunks   == [i \in 1..Len(files) |-> files[i].num_chunks]
        times    == [i \in 1..Len(files) |-> files[i].total_time_sec]
        latency  == [i \in 1..Len(files) |-> files[i].avg_latency_ms]
    IN  <<FitScalingCurve(chunks, times)>>
        \o (IF Len(chunks) > 2
            THEN <<FitScalingCurve(chunks, latency),
                   FitScalingCurve(chunks, latency)>>
            ELSE <<>>)

\* analyze_scaling_with_stats: group_by_chunk_count,
\* extract_metrics_with_stats and the calls of
\* create_scaling_plots_with_stats
PlannedWithStats(files) ==
    LET chunk_sizes == SortedSeq({files[i].num_chunks : i \in 1..Len(files)})
        group(c)    == SelectSeq(files, LAMBDA f : f.num_chunks = c)
        timesOf(c)  == [i \in 1..Len(group(c)) |-> group(c)[i].total_time_sec]
        latOf(c)    == [i \in 1..Len(group(c)) |-> group(c)[i].avg_latency_ms]
        time_mean   == [k \in 1..Len(chunk_sizes) |->
                           CalculateStats(timesOf(chunk_sizes[k])).mean]
        lat_mean    == [k \in 1..Len(chunk_sizes) |->
                           CalculateStats(latOf(chunk_sizes[k])).mean]
    IN  <<FitScalingCurve(chunk_sizes, time_mean)>>
        \o (IF Len(chunk_sizes) > 2
            THEN <<FitScalingCurve(chunk_sizes, lat_mean)>>
            ELSE <<>>)

---------------------------------------------------------------------------
\* SpecFit: main of the two analysis scripts, and fit_scaling_curve called
\* on its own

\* results.json files: num_chunks, ingestion total_time_sec and the
\* avg_latency_ms of one top_k
FitResults ==
    {[num_chunks |-> c, total_time_sec |-> t, avg_latency_ms |-> 500] :
        c \in {175, 5562, 69903}, t \in {0, 1000}}

FitValues == {0 - 100, 0, 100, 200}

InitFit ==
    /\ analysis \in {"results", "with_stats", "direct"}
    /\ results_files \in IF analysis = "direct" THEN {<<>>}
                         ELSE Lists(FitResults, 0, MaxFiles)
    /\ fit_calls = <<>>
    /\ analysis_status = "not_run"
    /\ NoPipeline
    /\ NoDetector
    /\ NoExperiment
    /\ NoUpgrade
    /\ NoBenchmark

\* main of analyze_scaling_results.py / analyze_scaling_with_stats.py
MainAnalysis ==
    /\ analysis \in {"results", "with_stats"}
    /\ analysis_status = "not_run"
    /\ IF Len(results_files) < 2
       THEN /\ fit_calls' = <<>>
            /\ analysis_status' = "too_few"
       ELSE LET planned == IF analysis = "results"
                           THEN PlannedResults(results_files)
                           ELSE PlannedWithStats(results_files)
            IN  /\ fit_calls' = UpToFirstRaise(planned)
                /\ analysis_status' =
                       IF \E k \in 1..Len(planned) : planned[k].raised
                       THEN "raised" ELSE "done"
    /\ UNCHANGED <<analysis, results_files, pipeline, detector, experiment,
                   upgrade, benchmark>>

\* fit_scaling_curve(x, y)
CallFitScalingCurve ==
    /\ analysis = "direct"
    /\ analysis_status = "not_run"
    /\ \E n \in 2..MaxFiles :
          \E x, y \in [1..n -> FitValues] :
             fit_calls' = <<FitScalingCurve(x, y)>>
    /\ analysis_status' = "done"
    /\ UNCHANGED <<analysis, results_files, pipeline, detector, experiment,
                   upgrade, benchmark>>

NextFit == MainAnalysis \/ CallFitScalingCurve

SpecFit == InitFit /\ [][NextFit]_vars

\* C24: fit_scaling_curve called with any x or y value that is zero or
\* negative fails with an error rather than returning a triple.
C24_RejectsInvalidDomain ==
    \A k \in 1..Len(fit_calls) :
       ~(Positive(fit_calls[k].x) /\ Positive(fit_calls[k].y))
          => fit_calls[k].raised

\* C25: for results that pass main's check (at least 2 files), each call
\* of fit_scaling_curve receives at least 3 points.
C25_FitHasThreePoints ==
    (analysis \in {"results", "with_stats"} /\ Len(results_files) >= 2)
       => \A k \in 1..Len(fit_calls) : Len(fit_calls[k].x) >= 3

---------------------------------------------------------------------------
\* SpecUp: process_corpus of run_scaling_n7_additional.py on one corpus,
\* one step per benchmark subprocess

\* The results.json of run i (each run has its own ingestion time)
ResultOf(i) == Run(1000 + 100 * i, 2200)

\* The loop of process_corpus is over when next_run exceeds target_runs;
\* the function then aggregates and saves, or returns None with fewer than
\* 3 results
Returned(collected) ==
    IF Len(collected) < 3 THEN NoValue
    ELSE AggregateResults(collected, "n7").result

AfterReturn(collected) ==
    IF Len(collected) < 3 THEN collected
    ELSE AggregateResults(collected, "n7").runs

\* find_n3_results accepted the corpus (at least 3 run directories), some
\* runs of an earlier invocation may be present under the N=10 directory
InitUp ==
    /\ \E n \in 3..MaxExisting :
          existing_n3_runs = [i \in 1..n |-> ResultOf(i)]
    /\ target_runs \in 4..MaxTarget
    /\ start_run \in 3..5
    /\ \E present \in SUBSET (start_run..target_runs) :
          n10_results_files = [r \in 1..MaxTarget |->
                                  IF r \in present THEN ResultOf(r)
                                  ELSE NoValue]
    /\ next_run = 0
    /\ upgrade_status = "copying"
    /\ all_results = <<>>
    /\ aggregated = NoValue
    /\ data = NoValue
    /\ report = NoReport
    /\ script = "n7"
    /\ calls = 0
    /\ NoDetector
    /\ NoExperiment
    /\ NoFitting
    /\ NoBenchmark

\* process_corpus up to the loop over the additional runs: copy the
\* existing runs that are not present yet, all_results = their copy
CopyExistingRuns ==
    /\ upgrade_status = "copying"
    /\ n10_results_files' =
          [r \in DOMAIN n10_results_files \cup (1..Len(existing_n3_runs)) |->
              IF r \in DOMAIN n10_results_files
                 /\ n10_results_files[r] # NoValue
              THEN n10_results_files[r]
              ELSE IF r <= Len(existing_n3_runs) THEN existing_n3_runs[r]
              ELSE NoValue]
    /\ next_run' = start_run
    /\ IF start_run > target_runs
       THEN /\ upgrade_status' = "returned"
            /\ aggregated' = Returned(existing_n3_runs)
            /\ all_results' = AfterReturn(existing_n3_runs)
            /\ data' = aggregated'
       ELSE /\ upgrade_status' = "running"
            /\ all_results' = existing_n3_runs
            /\ UNCHANGED <<aggregated, data>>
    /\ UNCHANGED <<existing_n3_runs, start_run, target_runs, report, script,
                   calls, detector, experiment, fitting, benchmark>>

\* One iteration of the loop: load the run if its results.json is present,
\* run the benchmark otherwise; after the last one aggregate and save
AdditionalRun ==
    /\ upgrade_status = "running"
    /\ \E success \in BOOLEAN :
          LET present   == n10_results_files[next_run] # NoValue
              collected == IF present
                           THEN Append(all_results, n10_results_files[next_run])
                           ELSE IF success
                           THEN Append(all_results, ResultOf(next_run))
                           ELSE all_results
          IN  /\ n10_results_files' =
                    IF ~present /\ success
                    THEN [n10_results_files EXCEPT ![next_run] = ResultOf(next_run)]
                    ELSE n10_results_files
              /\ next_run' = next_run + 1
              /\ IF next_run = target_runs
                 THEN /\ upgrade_status' = "returned"
                      /\ aggregated' = Returned(collected)
                      /\ all_results' = AfterReturn(collected)
                      /\ data' = aggregated'
                 ELSE /\ all_results' = collected
                      /\ UNCHANGED <<upgrade_status, aggregated, data>>
    /\ UNCHANGED <<existing_n3_runs, start_run, target_runs, report, script,
                   calls, detector, experiment, fitting, benchmark>>

NextUp == CopyExistingRuns \/ AdditionalRun

SpecUp == InitUp /\ [][NextUp]_vars

\* The ingestion time tells the runs apart
RunIdOf(rec) == rec.ingestion.total_time_sec

\* C26: no run's results.json contributes twice to all_results and
\* len(all_results) <= target_runs, so the aggregated n_runs never exceeds
\* target_runs.
C26_EachRunAtMostOnce ==
    /\ upgrade_status = "running"
          => /\ \A i, j \in 1..Len(all_results) :
                   RunIdOf(all_results[i]) = RunIdOf(all_results[j]) => i = j
             /\ Len(all_results) <= target_runs
    /\ (upgrade_status = "returned" /\ aggregated # NoValue)
          => aggregated.n_runs <= target_runs

---------------------------------------------------------------------------
\* The cleaning pipeline as a whole (Spec)

\* The number of retained values over all metrics of the file
TotalRetained(d) ==
    IF ~HasStatistics(d) THEN 0
    ELSE LET withValues == {m \in DOMAIN d.statistics :
                               "values" \in DOMAIN d.statistics[m]}
             lengths    == [m \in withValues |-> Len(d.statistics[m].values)]
         IN  SetSum(lengths, withValues)

\* What a pass does when applied to the file as it is
OutcomeNow(pass) ==
    IF pass = "n10" THEN CleanN10(data)
    ELSE IF pass = "aggressive" THEN CleanAggressive(data, 40 * 100)
    ELSE CleanColdStart(data)

NoChangeStatuses == {"no_outliers", "no_cold_start", "no_statistics"}

EveryPassReportsNoChange ==
    \A pass \in Passes : OutcomeNow(pass).report.status \in NoChangeStatuses

\* No pass changes the file any more: whatever passes are applied from
\* here on, each of them ends as it ends now
FixedPoint == \A pass \in Passes : OutcomeNow(pass).data = data

\* Every 'cleaned' application strictly decreases the number of retained
\* values and no application increases it
CleaningDecreases ==
    [][/\ report'.status = "cleaned"
            => TotalRetained(data') < TotalRetained(data)
       /\ TotalRetained(data') <= TotalRetained(data)]_vars

\* C27: any sequence of applications of the three cleaning passes holds
\* only finitely many that report 'cleaned': every 'cleaned' application
\* strictly decreases the total number of retained values, no application
\* increases it, and eventually every pass reports no change, that is,
\* once no pass changes the file every pass reports no change.
C27_CleaningReachesFixedPoint ==
    /\ CleaningDecreases
    /\ [](FixedPoint => EveryPassReportsNoChange)

\* The same for the files written by run_scaling_n7_additional.py, whose
\* statistics hold cv_percent
FixedPointOfN7Files ==
    (script = "n7" /\ FixedPoint) => EveryPassReportsNoChange

---------------------------------------------------------------------------
\* SpecBench: RAGBenchmark.run_full_benchmark, one step per call of a
\* method of the database under test (connect, create_collection,
\* insert_chunks, query, cleanup, disconnect), each of which returns or
\* raises

Called(method, raised) == [method |-> method, raised |-> raised]

\* Where control goes after the statement at pc completed: the loop of
\* run_queries, the loop under "if ground_truth_queries", the construction
\* of the results
AfterIngest == IF num_queries > 0 THEN "run_queries" ELSE "build_results"

AfterRunQueries ==
    IF ground_truth /\ num_queries > 0 THEN "accuracy" ELSE "build_results"

InitBench ==
    /\ num_queries \in 0..MaxQueries
    /\ ground_truth \in BOOLEAN
    /\ bench_calls = <<>>
    /\ bench_pc = "connect"
    /\ queries_done = 0
    /\ pending = "none"
    /\ bench_status = "running"
    /\ NoPipeline
    /\ NoDetector
    /\ NoExperiment
    /\ NoFitting
    /\ NoUpgrade

\* self.connect(), before the try
Connect ==
    /\ bench_pc = "connect"
    /\ \E raised \in BOOLEAN :
          /\ bench_calls' = Append(bench_calls, Called("connect", raised))
          /\ IF raised
             THEN /\ bench_pc' = "done"
                  /\ pending' = "connect"
                  /\ bench_status' = "raised"
             ELSE /\ bench_pc' = "create_collection"
                  /\ UNCHANGED <<pending, bench_status>>
    /\ UNCHANGED <<num_queries, ground_truth, queries_done, pipeline,
                   detector, experiment, fitting, upgrade>>

\* self.create_collection(dimension)
CreateCollection ==
    /\ bench_pc = "create_collection"
    /\ \E raised \in BOOLEAN :
          /\ bench_calls' = Append(bench_calls,
                                   Called("create_collection", raised))
          /\ IF raised
             THEN bench_pc' = "cleanup" /\ pending' = "create_collection"
             ELSE bench_pc' = "ingest_documents" /\ UNCHANGED pending
    /\ UNCHANGED <<num_queries, ground_truth, queries_done, bench_status,
                   pipeline, detector, experiment, fitting, upgrade>>

\* self.ingest_documents(...): parse, embed and self.insert_chunks(...)
IngestDocuments ==
    /\ bench_pc = "ingest_documents"
    /\ \E raised \in BOOLEAN :
          /\ bench_calls' = Append(bench_calls, Called("insert_chunks", raised))
          /\ IF raised
             THEN bench_pc' = "cleanup" /\ pending' = "ingest_documents"
             ELSE bench_pc' = AfterIngest /\ UNCHANGED pending
    /\ UNCHANGED <<num_queries, ground_truth, queries_done, bench_status,
                   pipeline, detector, experiment, fitting, upgrade>>

\* One iteration of the loop of run_queries: self.query(...)
RunQuery ==
    /\ bench_pc = "run_queries"
    /\ \E raised \in BOOLEAN :
          /\ bench_calls' = Append(bench_calls, Called("query", raised))
          /\ IF raised
             THEN /\ bench_pc' = "cleanup"
                  /\ pending' = "run_queries"
                  /\ queries_done' = 0
             ELSE /\ bench_pc' = IF queries_done + 1 = num_queries
                                 THEN AfterRunQueries ELSE "run_queries"
                  /\ queries_done' = IF queries_done + 1 = num_queries
                                     THEN 0 ELSE queries_done + 1
                  /\ UNCHANGED pending
    /\ UNCHANGED <<num_queries, ground_truth, bench_status, pipeline,
                   detector, experiment, fitting, upgrade>>

\* One iteration of the loop under "if ground_truth_queries": self.query(...)
AccuracyQuery ==
    /\ bench_pc = "accuracy"
    /\ \E raised \in BOOLEAN :
          /\ bench_calls' = Append(bench_calls, Called("query", raised))
          /\ IF raised
             THEN /\ bench_pc' = "cleanup"
                  /\ pending' = "accuracy"
                  /\ queries_done' = 0
             ELSE /\ bench_pc' = IF queries_done + 1 = num_queries
                                 THEN "build_results" ELSE "accuracy"
                  /\ queries_done' = IF queries_done + 1 = num_queries
                                     THEN 0 ELSE queries_done + 1
                  /\ UNCHANGED pending
    /\ UNCHANGED <<num_queries, ground_truth, bench_status, pipeline,
                   detector, experiment, fitting, upgrade>>

\* The latency statistics, the recall and precision and the
\* RAGBenchmarkResults; "return results" enters the finally block
BuildResults ==
    /\ bench_pc = "build_results"
    /\ bench_pc' = "cleanup"
    /\ UNCHANGED <<num_queries, ground_truth, bench_calls, queries_done,
                   pending, bench_status, pipeline, detector, experiment,
                   fitting, upgrade>>

\* finally: self.cleanup(); an exception raised here leaves the block
Cleanup ==
    /\ bench_pc = "cleanup"
    /\ \E raised \in BOOLEAN :
          /\ bench_calls' = Append(bench_calls, Called("cleanup", raised))
          /\ IF raised
             THEN /\ bench_pc' = "done"
                  /\ pending' = "cleanup"
                  /\ bench_status' = "raised"
             ELSE /\ bench_pc' = "disconnect"
                  /\ UNCHANGED <<pending, bench_status>>
    /\ UNCHANGED <<num_queries, ground_truth, queries_done, pipeline,
                   detector, experiment, fitting, upgrade>>

\* finally: self.disconnect(), then the return or the pending exception
Disconnect ==
    /\ bench_pc = "disconnect"
    /\ \E raised \in BOOLEAN :
          /\ bench_calls' = Append(bench_calls, Called("disconnect", raised))
          /\ pending' = IF raised THEN "disconnect" ELSE pending
          /\ bench_status' = IF raised \/ pending # "none" THEN "raised"
                             ELSE "returned"
    /\ bench_pc' = "done"
    /\ UNCHANGED <<num_queries, ground_truth, queries_done, pipeline,
                   detector, experiment, fitting, upgrade>>

NextBench ==
    \/ Connect
    \/ CreateCollection
    \/ IngestDocuments
    \/ RunQuery
    \/ AccuracyQuery
    \/ BuildResults
    \/ Cleanup
    \/ Disconnect

SpecBench == InitBench /\ [][NextBench]_vars

\* The positions in bench_calls of the calls of a method
CallsOf(method) ==
    {k \in 1..Len(bench_calls) : bench_calls[k].method = method}

ConnectReturned ==
    \E k \in CallsOf("connect") : ~bench_calls[k].raised

\* The steps run in the order connect, create_collection, ingestion,
\* queries
StepsInOrder ==
    /\ \A k \in CallsOf("create_collection") : \A c \in CallsOf("connect") : c < k
    /\ \A k \in CallsOf("insert_chunks") :
          \A c \in CallsOf("create_collection") : c < k
    /\ \A k \in CallsOf("query") : \A c \in CallsOf("insert_chunks") : c < k
    /\ \A k \in CallsOf("query") : CallsOf("insert_chunks") # {}
    /\ \A k \in CallsOf("insert_chunks") : CallsOf("create_collection") # {}
    /\ \A k \in CallsOf("create_collection") : CallsOf("connect") # {}

\* C29: the steps run in the order connect, create_collection,
\* ingest_documents, run_queries, and whenever connect() has returned,
\* cleanup() and then disconnect() are each called exactly once before
\* run_full_benchmark returns or propagates an exception, whichever step
\* fails; if connect() raises, neither is called.
C29_ReleasesInOrder ==
    /\ StepsInOrder
    /\ bench_status \in {"returned", "raised"}
          => IF ConnectReturned
             THEN /\ Cardinality(CallsOf("cleanup")) = 1
                  /\ Cardinality(CallsOf("disconnect")) = 1
                  /\ \A c \in CallsOf("cleanup") :
                        \A d \in CallsOf("disconnect") : c < d
             ELSE CallsOf("cleanup") = {} /\ CallsOf("disconnect") = {}

\* The same when cleanup() itself does not raise
ReleasesUnlessCleanupRaises ==
    (\E k \in CallsOf("cleanup") : bench_calls[k].raised) \/ C29_ReleasesInOrder

---------------------------------------------------------------------------
\* The two implementations of remove_outliers (on SpecZ)

\* The (cleaned, outliers) pair a call of remove_outliers returned
PairOf(r) == [cleaned |-> r.cleaned, outliers |-> r.outliers]

ReturnedBy(impl) ==
    /\ result # NoValue
    /\ result.impl = impl
    /\ "cleaned" \in DOMAIN result

\* C28: at the default threshold 3.5 the remove_outliers of
\* plot_resource_utilization.py and of verify_chroma_n10_stats.py return the
\* same (cleaned, outliers) pair for every input list: what one of them
\* returned is what the other returns for the same list, and with at least
\* 4 values the loop never leaves fewer than 3 values, so the "fewer than 3
\* remaining" guard is not taken.
C28_RemoveOutliersAgree ==
    threshold = 350 =>
        /\ ReturnedBy("plot_resource_utilization")
              => PairOf(result) = RemoveOutliersVerify(sample, threshold)
        /\ ReturnedBy("verify_chroma_n10_stats")
              => PairOf(result) = RemoveOutliersPlot(sample, threshold)
        /\ Len(sample) >= 4
              => Len(Partition(sample, ModifiedZscores(sample),
                               threshold).cleaned) >= 3

\* plot_resource_utilization.remove_outliers returned exactly 3 of 4 values
\* at threshold 3.5: one more outlier would have taken the guard
C28_Witness ==
    /\ threshold = 350
    /\ ReturnedBy("plot_resource_utilization")
    /\ Len(sample) = 4
    /\ Len(result.cleaned) = 3
    /\ Len(result.outliers) = 1


====
